---- MODULE Spec2Model ----
(***************************************************************************)
(* Interactive-component dispatch and lifecycle of the bot:               *)
(*   ComponentRegistry  (persistent components and factories),            *)
(*   ComponentHandler   (dynamic components, dispatch),                   *)
(*   ComponentManager   (cache entries, timeouts, periodic sweep),        *)
(*   BaseComponent.executeWithValidation, BaseButton.validate,            *)
(*   ConfirmButton / ConfirmButtonFactory.                                *)
(***************************************************************************)
EXTENDS Integers, Sequences, FiniteSets, TLC

VARIABLES
    regComponents,   \* ComponentRegistry.components : Map<string, BaseComponent>
    regFactories,    \* ComponentRegistry.factories  : Map<string, ComponentFactory>
    dynComponents,   \* ComponentHandler.components  : Map<string, BaseComponent>
    componentCache,  \* ComponentManager.componentCache : Map<string, ComponentCacheEntry>
    cleanupInterval, \* ComponentManager.cleanupInterval is set (the sweep timer is armed)
    now,             \* Date.now()
    tasks,           \* the dispatch() calls: one asynchronous task each
    facOrder,        \* history: the registered factories, by the time of their own registerFactory call
    keyOrder,        \* history: the registered pattern keys, by the time each key was first registered
    probe,           \* history: the last ComponentRegistry.has / get calls and their results
    instance,        \* ComponentManager.instance is set (the singleton has been constructed)
    timers,          \* the armed setInterval timers whose callback is cleanupExpiredComponents
    query            \* history: the last ComponentManager query and what it returned

vars == <<regComponents, regFactories, dynComponents, componentCache,
          cleanupInterval, now, tasks, facOrder, keyOrder, probe,
          instance, timers, query>>

-----------------------------------------------------------------------------
(* Bounds of the model *)

\* number of dispatch() calls of one run
MaxTasks == 2
\* the clock stops advancing here
MaxTime == 2
\* updateComponentMetadata calls counted on one cache entry
MaxUsage == 1
\* length of the strings handed to parseCustomId
MaxLen == 5

-----------------------------------------------------------------------------
(* Program constants *)

\* ComponentType.BUTTON
BUTTON == 2
\* ComponentType.STRING_SELECT
STRING_SELECT == 3
\* ComponentType.MODAL: the enum has no such member, the expression reads
\* undefined, which no component_type of an interaction equals
MODAL == -1
\* flags: 64 of a reply (ephemeral)
EPHEMERAL == 64
\* ComponentManager.DEFAULT_TIMEOUT = 15 * 60 * 1000
DEFAULT_TIMEOUT == 900000
\* a timeout passed in ComponentOptions (1 ms)
ShortTimeout == 1

-----------------------------------------------------------------------------
(* customIds.  A customId is kept as an opaque string; Text gives its        *)
(* characters, which is what the pattern of a factory reads.                *)

IdConfirm == "util:confirm:ok"
IdMenu == "menu:pick"
Ids == {IdConfirm, IdMenu}

\* a customId without a colon (nothing checks the format at registration)
IdPing == "ping"

ConfirmPrefix == <<"u","t","i","l",":","c","o","n","f","i","r","m",":">>

\* the customId of the cancel button of the test command, also an example of
\* the factory's format
IdTestDanger == "util:confirm:test-danger"

\* the customId of FeedbackModal
IdFeedback == "util:feedback:modal"

Text(id) ==
    IF id = IdFeedback
    THEN <<"u", "t", "i", "l", ":", "f", "e", "e", "d", "b", "a", "c", "k", ":", "m", "o", "d", "a", "l">>
    ELSE IF id = IdTestDanger
    THEN ConfirmPrefix \o <<"t", "e", "s", "t", "-", "d", "a", "n", "g", "e", "r">>
    ELSE IF id = IdConfirm
    THEN <<"u","t","i","l",":","c","o","n","f","i","r","m",":","o","k">>
    ELSE IF id = IdMenu
    THEN <<"m","e","n","u",":","p","i","c","k">>
    ELSE <<"p","i","n","g">>

\* /^util:confirm:(.+?)(?::(success|danger))?$/ .test(s): the prefix, then at
\* least one character (the lazy group takes whatever the optional suffix leaves).
MatchesConfirmPattern(s) ==
    /\ Len(s) > Len(ConfirmPrefix)
    /\ SubSeq(s, 1, Len(ConfirmPrefix)) = ConfirmPrefix

Users == {1, 2}

-----------------------------------------------------------------------------
(* JavaScript Map: insertion-ordered; set() of a present key keeps its place *)

MapHas(m, k) == \E i \in 1..Len(m) : m[i].k = k

MapIndex(m, k) == CHOOSE i \in 1..Len(m) : m[i].k = k

MapGet(m, k) == m[MapIndex(m, k)].v

\* variant of set: a key that is present keeps its value
MapSetKeepsFirst(m, k, v) ==
    IF MapHas(m, k) THEN m ELSE Append(m, [k |-> k, v |-> v])

\* variant of set: a key that is present moves behind every other key
MapSetMovesLast(m, k, v) ==
    Append(SelectSeq(m, LAMBDA e : e.k # k), [k |-> k, v |-> v])

MapSet(m, k, v) ==
    IF MapHas(m, k)
    THEN [m EXCEPT ![MapIndex(m, k)] = [k |-> k, v |-> v]]
    ELSE Append(m, [k |-> k, v |-> v])

MapDelete(m, k) == SelectSeq(m, LAMBDA e : e.k # k)

MapKeys(m) == {m[i].k : i \in 1..Len(m)}

MapValues(m) == [i \in 1..Len(m) |-> m[i].v]

-----------------------------------------------------------------------------
(* Components.  uid is the identity of the instance (0: built by a factory   *)
(* during a get).  kind selects the class:                                   *)
(*   "generic" a BaseComponent subclass: validate, execute and cleanup are   *)
(*             whatever the subclass does (any outcome);                     *)
(*   "button"  a BaseButton subclass: BaseButton.validate, any execute;      *)
(*   "confirm" ConfirmButton: BaseButton.validate, ConfirmButton.execute,    *)
(*             the inherited no-op cleanup;                                  *)
(*   "modal"   a BaseModal subclass (FeedbackModal): BaseModal.validate, any *)
(*             execute.                                                      *)

\* null / undefined as a component
NoComponent == [uid |-> -1]

\* new ConfirmButton(action, confirmStyle, metadata): customId util:confirm:<action>,
\* once = true; owner is metadata.originalUserId (0: none); action is what
\* follows "util:confirm:" in the customId
ConfirmButton(uid, id, style, owner, madeBy) ==
    [uid |-> uid, customId |-> id, kind |-> "confirm", once |-> TRUE,
     style |-> style, owner |-> owner, madeBy |-> madeBy,
     action |-> SubSeq(Text(id), Len(ConfirmPrefix) + 1, Len(Text(id)))]

OtherComponent(uid, id, kind, once, madeBy) ==
    [uid |-> uid, customId |-> id, kind |-> kind, once |-> once,
     style |-> "none", owner |-> 0, madeBy |-> madeBy, action |-> <<>>]

\* the instances the callers construct and register
Pool ==
    { ConfirmButton(1, IdConfirm, "success", 1, 0),
      OtherComponent(2, IdMenu, "generic", TRUE, 0),
      OtherComponent(3, IdMenu, "button", FALSE, 0) }

\* the instances registered in ComponentRegistry at startup
Persistent ==
    { OtherComponent(4, IdConfirm, "button", TRUE, 0),
      OtherComponent(5, IdMenu, "generic", FALSE, 0) }

\* another instance with the customId of a registered persistent component
Replacements == { OtherComponent(6, IdMenu, "button", FALSE, 0) }

\* an instance whose customId has no colon
Bareword == { OtherComponent(7, IdPing, "button", FALSE, 0) }

\* the modals registered as persistent components (FeedbackModal: a title
\* and two inputs, within the limits validate checks)
Modals == { OtherComponent(8, IdFeedback, "modal", FALSE, 0) }

-----------------------------------------------------------------------------
(* Factories.  fid is the identity of the factory object.                    *)
(*   1: ConfirmButtonFactory (pattern key "util:confirm");                   *)
(*   2: a factory keyed "any" that can handle every id and builds a generic  *)
(*      component;                                                           *)
(*   3: another factory keyed "util:confirm" that can handle every id and    *)
(*      whose create throws.                                                 *)

Factories ==
    { [fid |-> 1, pattern |-> "util:confirm", class |-> "confirm", throws |-> FALSE],
      [fid |-> 2, pattern |-> "any", class |-> "generic", throws |-> FALSE],
      [fid |-> 3, pattern |-> "util:confirm", class |-> "generic", throws |-> TRUE] }

\* factory.getPattern()
getPattern(f) == f.pattern

\* factory.canHandle(customId)
canHandle(f, id) ==
    IF f.class = "confirm" THEN MatchesConfirmPattern(Text(id)) ELSE TRUE

EndsWith(s, suffix) ==
    /\ Len(s) >= Len(suffix)
    /\ SubSeq(s, Len(s) - Len(suffix) + 1, Len(s)) = suffix

SuffixSuccess == <<":","s","u","c","c","e","s","s">>
SuffixDanger == <<":","d","a","n","g","e","r">>

\* the characters after "util:confirm:"
AfterPrefix(s) == SubSeq(s, Len(ConfirmPrefix) + 1, Len(s))

\* match[2]: the explicit style suffix (the lazy action group leaves it to the
\* optional group whenever at least one character remains for the action)
ExplicitStyle(s) ==
    LET rest == AfterPrefix(s) IN
    IF EndsWith(rest, SuffixSuccess) /\ Len(rest) > Len(SuffixSuccess) THEN "success"
    ELSE IF EndsWith(rest, SuffixDanger) /\ Len(rest) > Len(SuffixDanger) THEN "danger"
    ELSE "none"

\* match[1]: the action
ActionOf(s) ==
    LET rest == AfterPrefix(s) IN
    IF ExplicitStyle(s) = "success" THEN SubSeq(rest, 1, Len(rest) - Len(SuffixSuccess))
    ELSE IF ExplicitStyle(s) = "danger" THEN SubSeq(rest, 1, Len(rest) - Len(SuffixDanger))
    ELSE rest

\* ConfirmButtonFactory.inferStyleFromAction
inferStyleFromAction(action) ==
    IF EndsWith(action, <<"-","d","a","n","g","e","r">>)
       \/ EndsWith(action, <<"-","c","a","n","c","e","l">>) THEN "danger"
    ELSE IF EndsWith(action, <<"-","s","u","c","c","e","s","s">>)
       \/ EndsWith(action, <<"-","c","o","n","f","i","r","m">>) THEN "success"
    ELSE "success"

\* variant: no inference, a customId without an explicit suffix gives success
StyleExplicitOrSuccess(s) ==
    IF ExplicitStyle(s) # "none" THEN ExplicitStyle(s) ELSE "success"

\* match[2] || inferStyleFromAction(match[1])
StyleOf(s) ==
    IF ExplicitStyle(s) # "none" THEN ExplicitStyle(s) ELSE inferStyleFromAction(ActionOf(s))

\* ConfirmButtonFactory.create(customId), s the characters of customId: the
\* arguments it hands to new ConfirmButton (lines 107-118)
createConfirmButton(s) ==
    IF ~MatchesConfirmPattern(s)
    THEN [threw |-> TRUE, action |-> <<>>, style |-> "none"]
    ELSE [threw |-> FALSE, action |-> ActionOf(s), style |-> StyleOf(s)]

\* factory.create(customId, context): the component built, or NoComponent with
\* threw = TRUE.  ConfirmButtonFactory takes metadata from context.metadata,
\* which no ComponentContext carries: the button has no originalUserId.
\* The dispatched customId stands for the button's own (util:confirm:<action>).
create(f, id) ==
    IF f.throws \/ (f.class = "confirm" /\ createConfirmButton(Text(id)).threw)
    THEN [threw |-> TRUE, component |-> NoComponent]
    ELSE IF f.class = "confirm"
    THEN [threw |-> FALSE,
          component |-> [ConfirmButton(0, id, createConfirmButton(Text(id)).style,
                                       0, f.fid)
                           EXCEPT !.action = createConfirmButton(Text(id)).action]]
    ELSE [threw |-> FALSE,
          component |-> OtherComponent(0, id, "generic", FALSE, f.fid)]

-----------------------------------------------------------------------------
(* ComponentRegistry *)

\* the scan of get(): factories in the Map's order; the first that can handle
\* the id builds the result (null when its create throws) and ends the scan.
\* consulted lists the factories whose canHandle was called.
RECURSIVE ScanFactories(_, _, _)
ScanFactories(facs, i, id) ==
    IF i > Len(facs)
    THEN [component |-> NoComponent, consulted |-> <<>>, threw |-> FALSE]
    ELSE LET f == facs[i].v IN
         IF canHandle(f, id)
         THEN LET r == create(f, id) IN
              [component |-> r.component, consulted |-> <<f.fid>>, threw |-> r.threw]
         ELSE LET rest == ScanFactories(facs, i + 1, id) IN
              [rest EXCEPT !.consulted = <<f.fid>> \o @]

\* variant of get: the factories are tried before the direct components
RegistryGetFactoriesFirst(id) ==
    LET r == ScanFactories(regFactories, 1, id) IN
    IF r.component # NoComponent \/ ~MapHas(regComponents, id)
    THEN r
    ELSE [component |-> MapGet(regComponents, id), consulted |-> r.consulted,
          threw |-> FALSE]

\* ComponentRegistry.get(customId, context)
RegistryGet(id) ==
    IF MapHas(regComponents, id)
    THEN [component |-> MapGet(regComponents, id), consulted |-> <<>>, threw |-> FALSE]
    ELSE ScanFactories(regFactories, 1, id)

\* variant of has: any registered factory counts, canHandle is not asked
RegistryHasAnyFactory(id) ==
    \/ MapHas(regComponents, id)
    \/ regFactories # <<>>

\* ComponentRegistry.has(customId)
RegistryHas(id) ==
    \/ MapHas(regComponents, id)
    \/ \E i \in 1..Len(regFactories) : canHandle(regFactories[i].v, id)

NoProbe ==
    [hasId |-> "none", hasRes |-> FALSE,
     getId |-> "none", getRes |-> NoComponent, consulted |-> <<>>, threw |-> FALSE,
     warned |-> FALSE]

\* register, lines 21-23: the overwrite warning is logged when the customId
\* is already a key of the components map
OverwriteWarning(c) == MapHas(regComponents, c.customId)

\* ComponentRegistry.getAll()
RegistryGetAll(components) == MapValues(components)

\* ComponentRegistry.size
RegistrySize(components) == Len(components)

\* ComponentRegistry.factoryCount
RegistryFactoryCount(factories) == Len(factories)

\* ComponentRegistry.register(component); warned: the call logged the
\* overwrite warning
Register(c) ==
    /\ regComponents' = MapSet(regComponents, c.customId, c)
    /\ probe' = [NoProbe EXCEPT !.warned = OverwriteWarning(c)]
    /\ UNCHANGED <<regFactories, dynComponents, componentCache, cleanupInterval,
                   now, tasks, facOrder, keyOrder,
                   instance, timers, query>>

\* the registered factory objects by the time of their own registration
OrderAfterRegister(f) ==
    LET replaced == IF MapHas(regFactories, getPattern(f))
                    THEN {MapGet(regFactories, getPattern(f)).fid} ELSE {}
    IN  Append(SelectSeq(facOrder, LAMBDA x : x # f.fid /\ x \notin replaced), f.fid)

\* ComponentRegistry.registerFactory(factory)
RegisterFactory(f) ==
    /\ regFactories' = MapSet(regFactories, getPattern(f), f)
    /\ facOrder' = OrderAfterRegister(f)
    /\ keyOrder' = IF getPattern(f) \in {keyOrder[i] : i \in 1..Len(keyOrder)}
                   THEN keyOrder ELSE Append(keyOrder, getPattern(f))
    /\ probe' = NoProbe
    /\ UNCHANGED <<regComponents, dynComponents, componentCache, cleanupInterval,
                   now, tasks,
                   instance, timers, query>>

\* ComponentRegistry.clear()
RegistryClear ==
    /\ regComponents # <<>> \/ regFactories # <<>>
    /\ regComponents' = <<>>
    /\ regFactories' = <<>>
    /\ facOrder' = <<>>
    /\ keyOrder' = <<>>
    /\ probe' = NoProbe
    /\ UNCHANGED <<dynComponents, componentCache, cleanupInterval, now, tasks,
                   instance, timers, query>>

\* a caller's has(id): the result is recorded
CallHas(id) ==
    /\ probe' = [NoProbe EXCEPT !.hasId = id, !.hasRes = RegistryHas(id)]
    /\ UNCHANGED <<regComponents, regFactories, dynComponents, componentCache,
                   cleanupInterval, now, tasks, facOrder, keyOrder,
                   instance, timers, query>>

\* a caller's get(id): the result is recorded beside the last has
CallGet(id) ==
    /\ LET r == RegistryGet(id) IN
       probe' = [probe EXCEPT !.getId = id, !.getRes = r.component,
                              !.consulted = r.consulted, !.threw = r.threw]
    /\ UNCHANGED <<regComponents, regFactories, dynComponents, componentCache,
                   cleanupInterval, now, tasks, facOrder, keyOrder,
                   instance, timers, query>>

-----------------------------------------------------------------------------
(* query: the last call of a ComponentManager method that reports something *)
(* (a result, or a line of the log), kept until the next change of the maps *)
(* or of the clock.                                                          *)

NoQuery ==
    [op |-> "none", id |-> "none", ns |-> <<>>, flag |-> FALSE, threw |-> FALSE,
     components |-> <<>>, count |-> 0, text |-> <<>>,
     created |-> [threw |-> FALSE, action |-> <<>>, style |-> "none"],
     parsed |-> [threw |-> FALSE, namespace |-> <<>>, componentId |-> <<>>,
                 hasHash |-> FALSE, metadataHash |-> <<>>]]

-----------------------------------------------------------------------------
(* ComponentHandler: the dynamic map *)

\* variant: a removed registration cancels the dispatches running its component
CancelOnRemoval(removed) ==
    [t \in DOMAIN tasks |->
       IF /\ tasks[t].pc \in {"validate", "execute", "cleanup"}
          /\ tasks[t].src = "dynamic"
          /\ tasks[t].customId \in removed
       THEN [tasks[t] EXCEPT !.pc = "done", !.result = "returned"]
       ELSE tasks[t]]

\* ComponentHandler.unregister only deletes the map entry (lines 169-173), and
\* it is all unregisterComponent and the sweep do to the handler: no dispatch
\* is touched
TasksAfterRemoval(removed) == tasks

\* ComponentHandler.register(component)
HandlerRegister(c) ==
    /\ dynComponents' = MapSet(dynComponents, c.customId, c)
    /\ query' = NoQuery
    /\ UNCHANGED <<regComponents, regFactories, componentCache, cleanupInterval,
                   now, tasks, facOrder, keyOrder, probe,
                   instance, timers>>

\* ComponentHandler.unregister(customId)
HandlerUnregister(id) ==
    /\ MapHas(dynComponents, id)
    /\ dynComponents' = MapDelete(dynComponents, id)
    /\ tasks' = TasksAfterRemoval({id})
    /\ query' = NoQuery
    /\ UNCHANGED <<regComponents, regFactories, componentCache, cleanupInterval,
                   now, facOrder, keyOrder, probe,
                   instance, timers>>

-----------------------------------------------------------------------------------------------------------------------------------------------------
(* ComponentManager *)

\* ComponentOptions {timeout?, metadata?}.  A metadata object is the set of
\* its keys.
NoOptions ==
    [hasTimeout |-> FALSE, timeout |-> 0, hasMetadata |-> FALSE, metadata |-> {}]

WithTimeout(ms) == [NoOptions EXCEPT !.hasTimeout = TRUE, !.timeout = ms]

WithMetadata(options) == [options EXCEPT !.hasMetadata = TRUE, !.metadata = {"source"}]

\* the options the callers pass
ComponentOptions ==
    { NoOptions, WithTimeout(0), WithTimeout(ShortTimeout),
      WithMetadata(WithTimeout(ShortTimeout)) }

\* variant: options.timeout || DEFAULT_TIMEOUT (a timeout of 0 counts as absent)
TimeoutOrDefault(options) ==
    IF options.hasTimeout /\ options.timeout # 0 THEN options.timeout ELSE DEFAULT_TIMEOUT

\* line 36: options.timeout ?? this.DEFAULT_TIMEOUT
TimeoutOf(options) ==
    IF options.hasTimeout THEN options.timeout ELSE DEFAULT_TIMEOUT

\* line 37: options.metadata ?? {}
MetadataOf(options) ==
    IF options.hasMetadata THEN options.metadata ELSE {}

\* component.getCustomId()
getCustomId(c) == c.customId

\* the ComponentCacheEntry registerComponent builds (lines 43-50)
NewEntry(c, options) ==
    [component |-> c, registeredAt |-> now, timeout |-> TimeoutOf(options),
     metadata |-> MetadataOf(options), usageCount |-> 0, lastUsed |-> now]

\* what registerComponent returns (line 60)
RegisterComponentReturns(c) == getCustomId(c)

\* ComponentManager.registerComponent(component, options)
RegisterComponent(c, options) ==
    /\ dynComponents' = MapSet(dynComponents, getCustomId(c), c)
    /\ componentCache' = MapSet(componentCache, getCustomId(c), NewEntry(c, options))
    /\ query' = NoQuery
    /\ UNCHANGED <<regComponents, regFactories, cleanupInterval, now, tasks,
                   facOrder, keyOrder, probe, instance, timers>>

\* registerComponent(component, options) on the two maps (lines 38-50)
Registered(st, c, options) ==
    [dyn |-> MapSet(st.dyn, getCustomId(c), c),
     cache |-> MapSet(st.cache, getCustomId(c), NewEntry(c, options))]

\* ComponentManager.updateComponentMetadata(customId, metadata): merges the
\* keys, stamps lastUsed and counts one use; nothing without an entry
Updated(cache, id, metadata) ==
    IF MapHas(cache, id)
    THEN LET entry == MapGet(cache, id) IN
         MapSet(cache, id, [entry EXCEPT !.metadata = @ \cup metadata,
                                         !.lastUsed = now,
                                         !.usageCount = @ + 1])
    ELSE cache

\* variant of the comparison of isComponentExpired: age >= timeout
ExpiredAtTimeout(age, timeout) == age >= timeout

\* line 105: age > entry.timeout
Expired(age, timeout) == age > timeout

\* ComponentManager.isComponentExpired(customId), on a given cache
isComponentExpired(cache, id) ==
    IF ~MapHas(cache, id) THEN TRUE
    ELSE LET entry == MapGet(cache, id) IN
         Expired(now - entry.registeredAt, entry.timeout)

\* ComponentManager.getComponentStats(customId)
getComponentStats(cache, id) ==
    IF ~MapHas(cache, id)
    THEN [found |-> FALSE, customId |-> id, usageCount |-> 0, age |-> 0,
          timeSinceLastUse |-> 0, expired |-> TRUE, metadata |-> {}]
    ELSE LET entry == MapGet(cache, id) IN
         [found |-> TRUE, customId |-> id, usageCount |-> entry.usageCount,
          age |-> now - entry.registeredAt,
          timeSinceLastUse |-> now - entry.lastUsed,
          expired |-> isComponentExpired(cache, id),
          metadata |-> entry.metadata]

\* ComponentManager.getAllComponentStats(): the customIds it lists
getAllComponentStats(cache) ==
    LET all == [i \in 1..Len(cache) |-> getComponentStats(cache, cache[i].k)] IN
    SelectSeq(all, LAMBDA s : s.found)

\* customId.split(':')
RECURSIVE Split(_, _)
Split(s, cur) ==
    IF s = <<>> THEN <<cur>>
    ELSE IF Head(s) = ":" THEN <<cur>> \o Split(Tail(s), <<>>)
    ELSE Split(Tail(s), Append(cur, Head(s)))

\* what parseCustomId hands back when it throws (nothing is returned)
NoParsed ==
    [threw |-> TRUE, namespace |-> <<>>, componentId |-> <<>>,
     hasHash |-> FALSE, metadataHash |-> <<>>]

\* variant of parseCustomId: a customId without a third part is refused too
parseCustomIdNeedsHash(s) ==
    LET parts == Split(s, <<>>) IN
    IF Len(parts) < 3
    THEN NoParsed
    ELSE [threw |-> FALSE, namespace |-> parts[1], componentId |-> parts[2],
          hasHash |-> TRUE, metadataHash |-> parts[3]]

\* ComponentManager.parseCustomId(customId), s the characters of customId:
\* throws with fewer than two parts; metadataHash is parts[2], undefined
\* (hasHash false) when there is no third part
parseCustomId(s) ==
    LET parts == Split(s, <<>>) IN
    IF Len(parts) < 2
    THEN NoParsed
    ELSE [threw |-> FALSE, namespace |-> parts[1], componentId |-> parts[2],
          hasHash |-> Len(parts) >= 3,
          metadataHash |-> IF Len(parts) >= 3 THEN parts[3] ELSE <<>>]

\* ComponentManager.getComponentsByNamespace(namespace): the loop over
\* componentCache.entries() from entry i on; an exception of parseCustomId
\* leaves the loop and the method
RECURSIVE ByNamespace(_, _, _)
ByNamespace(cache, i, ns) ==
    IF i > Len(cache) THEN [threw |-> FALSE, components |-> <<>>]
    ELSE LET parsed == parseCustomId(Text(cache[i].k)) IN
         IF parsed.threw THEN [threw |-> TRUE, components |-> <<>>]
         ELSE LET rest == ByNamespace(cache, i + 1, ns) IN
              IF rest.threw THEN rest
              ELSE IF parsed.namespace = ns
              THEN [rest EXCEPT !.components = <<cache[i].v.component>> \o @]
              ELSE rest

getComponentsByNamespace(cache, ns) == ByNamespace(cache, 1, ns)

\* variant of unregisterComponent: the handler is told, the cache entry stays
UnregisteredHandlerOnly(st, id) ==
    IF MapHas(st.cache, id)
    THEN [dyn |-> MapDelete(st.dyn, id), cache |-> st.cache]
    ELSE st

\* variant of unregisterComponent: the cache entry is deleted, the handler
\* is not told
UnregisteredCacheOnly(st, id) ==
    [dyn |-> st.dyn, cache |-> MapDelete(st.cache, id)]

\* ComponentManager.unregisterComponent(customId) on the two maps:
\* nothing happens without a cache entry
Unregistered(st, id) ==
    IF MapHas(st.cache, id)
    THEN [dyn |-> MapDelete(st.dyn, id), cache |-> MapDelete(st.cache, id)]
    ELSE st

\* the effect of unregisterComponent(customId) on the program's state
UnregisterEffect(id) ==
    LET st == Unregistered([dyn |-> dynComponents, cache |-> componentCache], id) IN
    /\ dynComponents' = st.dyn
    /\ componentCache' = st.cache
    /\ tasks' = TasksAfterRemoval(MapKeys(dynComponents) \ MapKeys(st.dyn))
    /\ UNCHANGED <<regComponents, regFactories, cleanupInterval, now,
                   facOrder, keyOrder, probe, instance, timers>>

\* unregisterComponent(customId), called where it finds something to remove
UnregisterComponent(id) ==
    /\ MapHas(componentCache, id) \/ MapHas(dynComponents, id)
    /\ UnregisterEffect(id)
    /\ query' = NoQuery

\* variant of the pass: the loop walks the entries by position, and a removal
\* moves the following entry into the place just visited, which is skipped
RECURSIVE SweptByPosition(_, _, _)
SweptByPosition(st, keys, i) ==
    IF i > Len(st.cache) THEN st
    ELSE IF isComponentExpired(st.cache, st.cache[i].k)
         THEN SweptByPosition(Unregistered(st, st.cache[i].k), keys, i + 1)
         ELSE SweptByPosition(st, keys, i + 1)

\* ComponentManager.cleanupExpiredComponents(): one pass over the cache's
\* entries (keys is the iteration order), unregistering each expired one
RECURSIVE Swept(_, _, _)
Swept(st, keys, i) ==
    IF i > Len(keys) THEN st
    ELSE IF isComponentExpired(st.cache, keys[i])
         THEN Swept(Unregistered(st, keys[i]), keys, i + 1)
         ELSE Swept(st, keys, i + 1)

\* the state of the two maps after cleanupExpiredComponents()
AfterSweep ==
    Swept([dyn |-> dynComponents, cache |-> componentCache],
          [i \in 1..Len(componentCache) |-> componentCache[i].k], 1)

\* cleaned, the number the pass logs (lines 201-212): one per unregistered entry
Cleaned == Len(componentCache) - Len(AfterSweep.cache)

\* a tick of a setInterval timer armed by startCleanupInterval
SweepTick ==
    /\ timers > 0
    /\ componentCache # <<>>
    /\ dynComponents' = AfterSweep.dyn
    /\ componentCache' = AfterSweep.cache
    /\ tasks' = TasksAfterRemoval(MapKeys(dynComponents) \ MapKeys(AfterSweep.dyn))
    /\ query' = [NoQuery EXCEPT !.op = "cleanupExpiredComponents", !.count = Cleaned]
    /\ UNCHANGED <<regComponents, regFactories, cleanupInterval, now,
                   facOrder, keyOrder, probe, instance, timers>>

\* getInstance, line 22: if (!ComponentManager.instance)
NeedsConstruction == ~instance

\* ComponentManager.getInstance(): the first call constructs the manager,
\* whose constructor arms the sweep timer (lines 17-26, 218-224)
GetInstance ==
    IF NeedsConstruction
    THEN /\ instance' = TRUE
         /\ componentCache' = <<>>
         /\ cleanupInterval' = TRUE
         /\ timers' = timers + 1
         /\ query' = NoQuery
         /\ UNCHANGED <<regComponents, regFactories, dynComponents, now, tasks,
                        facOrder, keyOrder, probe>>
    ELSE UNCHANGED vars

\* variant of stopCleanupInterval: the handle is forgotten, the timer is not cleared
TimersAfterForget(handle) == timers

\* stopCleanupInterval, lines 230-232: clearInterval of the handle held
TimersAfterStop(handle) == IF handle THEN timers - 1 ELSE timers

\* ComponentManager.stopCleanupInterval(); flag: the handle was set and the
\* stop was logged
StopCleanupInterval ==
    /\ cleanupInterval' = FALSE
    /\ timers' = TimersAfterStop(cleanupInterval)
    /\ query' = [NoQuery EXCEPT !.op = "stopCleanupInterval", !.flag = cleanupInterval]
    /\ UNCHANGED <<regComponents, regFactories, dynComponents, componentCache,
                   now, tasks, facOrder, keyOrder, probe, instance>>

\* the clock advances
Tick ==
    /\ now < MaxTime
    /\ now' = now + 1
    /\ query' = NoQuery
    /\ UNCHANGED <<regComponents, regFactories, dynComponents, componentCache,
                   cleanupInterval, tasks, facOrder, keyOrder, probe,
                   instance, timers>>

-----------------------------------------------------------------------------
(* The callers of ComponentManager; query keeps the last call and its result *)

\* a caller's unregisterComponent(id), whatever the id; flag: the entry was
\* found and the removal logged (line 71)
CallUnregisterComponent(id) ==
    /\ UnregisterEffect(id)
    /\ query' = [NoQuery EXCEPT !.op = "unregisterComponent", !.id = id,
                                !.flag = MapHas(componentCache, id)]

\* a caller's updateComponentMetadata(id, {seen: ...})
CallUpdateComponentMetadata(id) ==
    /\ MapHas(componentCache, id)
    /\ MapGet(componentCache, id).usageCount < MaxUsage
    /\ componentCache' = Updated(componentCache, id, {"seen"})
    /\ query' = NoQuery
    /\ UNCHANGED <<regComponents, regFactories, dynComponents, cleanupInterval,
                   now, tasks, facOrder, keyOrder, probe, instance, timers>>

\* a caller's isComponentExpired(id)
CallIsComponentExpired(id) ==
    /\ query' = [NoQuery EXCEPT !.op = "isComponentExpired", !.id = id,
                                !.flag = isComponentExpired(componentCache, id)]
    /\ UNCHANGED <<regComponents, regFactories, dynComponents, componentCache,
                   cleanupInterval, now, tasks, facOrder, keyOrder, probe,
                   instance, timers>>

\* a caller's getComponentsByNamespace(ns)
CallGetComponentsByNamespace(ns) ==
    /\ LET r == getComponentsByNamespace(componentCache, ns) IN
       query' = [NoQuery EXCEPT !.op = "getComponentsByNamespace", !.ns = ns,
                                !.threw = r.threw, !.components = r.components]
    /\ UNCHANGED <<regComponents, regFactories, dynComponents, componentCache,
                   cleanupInterval, now, tasks, facOrder, keyOrder, probe,
                   instance, timers>>

\* the customId the ConfirmButton constructor builds (line 24):
\* `util:confirm:${action}`, whatever the style
CustomIdOfAction(action) ==
    CHOOSE id \in {IdConfirm, IdTestDanger} : Text(id) = ConfirmPrefix \o action

\* the actions the callers ask a confirmation for
PairActions == { <<"o", "k">>, <<"t", "e", "s", "t", "-", "d", "a", "n", "g", "e", "r">> }

\* ConfirmButton.createConfirmPair(action, originalUserId): two new buttons,
\* success and danger, of the same action and for the same user
createConfirmPair(action, originalUserId) ==
    LET uid == IF action = <<"o", "k">> THEN 9 ELSE 11 IN
    << ConfirmButton(uid, CustomIdOfAction(action), "success", originalUserId, 0),
       ConfirmButton(uid + 1, CustomIdOfAction(action), "danger", originalUserId, 0) >>

\* the documented confirmation dialog: createConfirmPair, then
\* registerComponent(confirmBtn); registerComponent(cancelBtn)
RegisterPair(action, user) ==
    LET pair == createConfirmPair(action, user)
        st == Registered(Registered([dyn |-> dynComponents, cache |-> componentCache],
                                    pair[1], NoOptions),
                         pair[2], NoOptions)
    IN
    /\ dynComponents' = st.dyn
    /\ componentCache' = st.cache
    /\ query' = [NoQuery EXCEPT !.op = "createConfirmPair", !.components = pair]
    /\ UNCHANGED <<regComponents, regFactories, cleanupInterval, now, tasks,
                   facOrder, keyOrder, probe, instance, timers>>

\* a caller's parseCustomId(s): the outcome is recorded; the method reads its
\* argument only (lines 125-142 touch no field of the manager)
CallParseCustomId(s) ==
    /\ query' = [NoQuery EXCEPT !.op = "parseCustomId", !.text = s,
                                !.parsed = parseCustomId(s)]
    /\ UNCHANGED <<regComponents, regFactories, dynComponents, componentCache,
                   cleanupInterval, now, tasks, facOrder, keyOrder, probe,
                   instance, timers>>

\* a caller's ConfirmButtonFactory.create(s): the outcome is recorded
CallCreate(s) ==
    /\ query' = [NoQuery EXCEPT !.op = "create", !.text = s,
                                !.created = createConfirmButton(s)]
    /\ UNCHANGED <<regComponents, regFactories, dynComponents, componentCache,
                   cleanupInterval, now, tasks, facOrder, keyOrder, probe,
                   instance, timers>>

-----------------------------------------------------------------------------
(* ComponentHandler.dispatch: an asynchronous task.  pc is the await the     *)
(* task is suspended at:                                                     *)
(*   "idle"     not called yet                                               *)
(*   "validate" in executeWithValidation, awaiting this.validate(context)    *)
(*   "execute"  awaiting this.execute(context)                               *)
(*   "cleanup"  awaiting this.cleanup()                                      *)
(*   "notify"   in dispatch's catch, awaiting context.api.interactions.reply *)
(*   "done"     dispatch has settled; result is how                          *)
(*   "modalSubmit" an interaction of type ModalSubmit has reached            *)
(*              InteractionCreateEvent.execute, handleModalSubmit is to run  *)
(* at is the time of the call; calls lists the methods of the component      *)
(* that executeWithValidation has invoked, in order.                         *)

Tasks == 1..MaxTasks

IdleTask ==
    [pc |-> "idle", customId |-> "none", componentType |-> 0, userId |-> 0,
     at |-> 0, component |-> NoComponent, src |-> "none",
     vres |-> "none", eres |-> "none", cres |-> "none",
     replies |-> <<>>, result |-> "none", calls |-> <<>>]

\* variant of the resolution: the dynamic map first, the registry second
ResolveDynamicFirst(id) ==
    IF MapHas(dynComponents, id)
    THEN [component |-> MapGet(dynComponents, id), src |-> "dynamic"]
    ELSE LET r == RegistryGet(id) IN
         IF r.component # NoComponent
         THEN [component |-> r.component, src |-> "registry"]
         ELSE [component |-> NoComponent, src |-> "none"]

\* variant of the resolution: the registry alone, no fallback
ResolveRegistryOnly(id) ==
    LET r == RegistryGet(id) IN
    IF r.component # NoComponent
    THEN [component |-> r.component, src |-> "registry"]
    ELSE [component |-> NoComponent, src |-> "none"]

\* variant of the resolution: a dynamic component that isComponentExpired
\* reports expired is not resolved
ResolveUnlessExpired(id) ==
    LET r == RegistryGet(id) IN
    IF r.component # NoComponent
    THEN [component |-> r.component, src |-> "registry"]
    ELSE IF MapHas(dynComponents, id)
            /\ ~(MapHas(componentCache, id) /\ isComponentExpired(componentCache, id))
    THEN [component |-> MapGet(dynComponents, id), src |-> "dynamic"]
    ELSE [component |-> NoComponent, src |-> "none"]

\* lines 181-186 of dispatch: the registry first, the dynamic map second
Resolve(id) ==
    LET r == RegistryGet(id) IN
    IF r.component # NoComponent
    THEN [component |-> r.component, src |-> "registry"]
    ELSE IF MapHas(dynComponents, id)
    THEN [component |-> MapGet(dynComponents, id), src |-> "dynamic"]
    ELSE [component |-> NoComponent, src |-> "none"]

\* variant: a resolved single-use dynamic component is claimed (removed) at once
ClaimOnResolve(id, res) ==
    IF res.src = "dynamic" /\ res.component.once
    THEN MapDelete(dynComponents, id)
    ELSE dynComponents

\* variant: a dispatch that finds the customId in the manager's cache but not
\* in the dynamic map puts the cached component back
ReRegisterFromCache(id, res) ==
    IF ~MapHas(dynComponents, id) /\ MapHas(componentCache, id)
    THEN MapSet(dynComponents, id, MapGet(componentCache, id).component)
    ELSE dynComponents

\* dispatch only reads the dynamic map (line 185): resolving a component
\* leaves its registration as it is
DynAfterResolve(id, res) == dynComponents

\* variant: a miss is answered with the error notice
OnMissNotifies(base) ==
    [base EXCEPT !.pc = "done", !.result = "returned",
                 !.replies = <<[kind |-> "notice", flags |-> EPHEMERAL, ok |-> TRUE]>>]

\* lines 188-191: nothing resolved, dispatch logs a warning and returns
OnMiss(base) == [base EXCEPT !.pc = "done", !.result = "returned"]

\* dispatch(customId, context) up to its first await: resolution, and the
\* return of lines 188-191 when nothing resolves
DispatchStart(t, id, ctype, user) ==
    LET res == Resolve(id)
        base == [IdleTask EXCEPT
                   !.customId = id, !.componentType = ctype, !.userId = user,
                   !.at = now, !.component = res.component, !.src = res.src]
    IN
    /\ tasks[t].pc = "idle"
    /\ IF t = 1 THEN TRUE ELSE tasks[t - 1].pc # "idle"
    /\ tasks' = [tasks EXCEPT ![t] =
                   IF res.component = NoComponent
                   THEN OnMiss(base)
                   ELSE [base EXCEPT !.pc = "validate"]]
    /\ dynComponents' = DynAfterResolve(id, res)
    /\ UNCHANGED <<regComponents, regFactories, componentCache,
                   cleanupInterval, now, facOrder, keyOrder, probe,
                   instance, timers, query>>

\* BaseButton.validate(context)
BaseButtonValidate(ctype) == IF ctype # BUTTON THEN "false" ELSE "true"

\* BaseModal.validate(context), for a modal whose inputs and title are within
\* the limits
BaseModalValidate(ctype) == IF ctype # MODAL THEN "false" ELSE "true"

\* what validate(context) of the component can do
ValidateOutcomes(c, ctype) ==
    IF c.kind \in {"button", "confirm"}
    THEN {BaseButtonValidate(ctype)}
    ELSE IF c.kind = "modal"
    THEN {BaseModalValidate(ctype)}
    ELSE {"true", "false", "throw"}

\* variant: a rejected validation is raised like an error
AfterValidateRaisesRejection(o) ==
    IF o = "true" THEN [pc |-> "execute", result |-> "none"]
    ELSE [pc |-> "notify", result |-> "none"]

\* executeWithValidation, lines 204-208 (and the rethrow of 219-222)
AfterValidate(o) ==
    IF o = "true" THEN [pc |-> "execute", result |-> "none"]
    ELSE IF o = "false" THEN [pc |-> "done", result |-> "returned"]
    ELSE [pc |-> "notify", result |-> "none"]

Validate(t) ==
    /\ tasks[t].pc = "validate"
    /\ \E o \in ValidateOutcomes(tasks[t].component, tasks[t].componentType) :
         tasks' = [tasks EXCEPT ![t].vres = o,
                                ![t].calls = Append(@, "validate"),
                                ![t].pc = AfterValidate(o).pc,
                                ![t].result = AfterValidate(o).result]
    /\ UNCHANGED <<regComponents, regFactories, dynComponents, componentCache,
                   cleanupInterval, now, facOrder, keyOrder, probe,
                   instance, timers, query>>

\* variant: the confirmation is sent ephemeral, like the refusal
ConfirmReplyEphemeral(c, user, ok) ==
    IF c.owner # 0 /\ c.owner # user
    THEN [kind |-> "notForYou", flags |-> EPHEMERAL, ok |-> ok]
    ELSE [kind |-> "confirmation", flags |-> EPHEMERAL, ok |-> ok]

\* the reply ConfirmButton.execute sends: the ephemeral refusal for another
\* user than metadata.originalUserId, the confirmation embed otherwise
ConfirmReply(c, user, ok) ==
    IF c.owner # 0 /\ c.owner # user
    THEN [kind |-> "notForYou", flags |-> EPHEMERAL, ok |-> ok]
    ELSE [kind |-> "confirmation", flags |-> 0, ok |-> ok]

\* variant: a single-use component is cleaned up whether execute threw or not
AfterExecuteCleansAlways(c, o) ==
    IF c.once THEN [pc |-> "cleanup", result |-> "none"]
    ELSE IF o = "throw" THEN [pc |-> "notify", result |-> "none"]
    ELSE [pc |-> "done", result |-> "returned"]

\* executeWithValidation, lines 211-216 after execute settled with o
AfterExecute(c, o) ==
    IF o = "throw" THEN [pc |-> "notify", result |-> "none"]
    ELSE IF c.once THEN [pc |-> "cleanup", result |-> "none"]
    ELSE [pc |-> "done", result |-> "returned"]

\* execute(context) of a component whose execute sends nothing through the
\* responder itself: it returns or throws
ExecuteOther(t) ==
    /\ tasks[t].pc = "execute"
    /\ tasks[t].component.kind # "confirm"
    /\ \E o \in {"ok", "throw"} :
         tasks' = [tasks EXCEPT ![t].eres = o,
                                ![t].calls = Append(@, "execute"),
                                ![t].pc = AfterExecute(tasks[t].component, o).pc,
                                ![t].result = AfterExecute(tasks[t].component, o).result]
    /\ UNCHANGED <<regComponents, regFactories, dynComponents, componentCache,
                   cleanupInterval, now, facOrder, keyOrder, probe,
                   instance, timers, query>>

\* ConfirmButton.execute(context): one reply; a failing reply is its throw
ExecuteConfirm(t) ==
    /\ tasks[t].pc = "execute"
    /\ tasks[t].component.kind = "confirm"
    /\ \E ok \in BOOLEAN :
         LET o == IF ok THEN "ok" ELSE "throw" IN
         tasks' = [tasks EXCEPT ![t].eres = o,
                                ![t].calls = Append(@, "execute"),
                                ![t].replies = Append(@, ConfirmReply(tasks[t].component,
                                                                      tasks[t].userId, ok)),
                                ![t].pc = AfterExecute(tasks[t].component, o).pc,
                                ![t].result = AfterExecute(tasks[t].component, o).result]
    /\ UNCHANGED <<regComponents, regFactories, dynComponents, componentCache,
                   cleanupInterval, now, facOrder, keyOrder, probe,
                   instance, timers, query>>

\* what cleanup() of the component can do: BaseComponent.cleanup is empty and
\* ConfirmButton inherits it, as does every component class of the repository;
\* an override may throw.  No cleanup touches a registration.
CleanupOutcomes(c) == IF c.kind = "confirm" THEN {"ok"} ELSE {"ok", "throw"}

\* BaseComponent.cleanup(): no registration is touched
Cleanup(t) ==
    /\ tasks[t].pc = "cleanup"
    /\ \E o \in CleanupOutcomes(tasks[t].component) :
         tasks' = [tasks EXCEPT ![t].cres = o,
                                ![t].calls = Append(@, "cleanup"),
                                ![t].pc = IF o = "ok" THEN "done" ELSE "notify",
                                ![t].result = IF o = "ok" THEN "returned" ELSE "none"]
    /\ UNCHANGED <<regComponents, regFactories, dynComponents, componentCache,
                   cleanupInterval, now, facOrder, keyOrder, probe,
                   instance, timers, query>>

\* variant: a failed notice is sent again
NoticeRepliesRetry(ok) ==
    IF ok
    THEN <<[kind |-> "notice", flags |-> EPHEMERAL, ok |-> TRUE]>>
    ELSE <<[kind |-> "notice", flags |-> EPHEMERAL, ok |-> FALSE],
           [kind |-> "notice", flags |-> EPHEMERAL, ok |-> TRUE]>>

\* dispatch's catch, lines 200-207: the replies attempted, given whether the
\* responder's reply succeeds
NoticeReplies(ok) == <<[kind |-> "notice", flags |-> EPHEMERAL, ok |-> ok]>>

\* variant: the inner try/catch is missing, a failed notice escapes dispatch
SettleNoticeFailureEscapes(ok) == IF ok THEN "returned" ELSE "threw"

\* how dispatch settles after the notice attempt
SettleAfterNotice(ok) == "returned"

Notify(t) ==
    /\ tasks[t].pc = "notify"
    /\ \E ok \in BOOLEAN :
         tasks' = [tasks EXCEPT ![t].replies = @ \o NoticeReplies(ok),
                                ![t].pc = "done",
                                ![t].result = SettleAfterNotice(ok)]
    /\ UNCHANGED <<regComponents, regFactories, dynComponents, componentCache,
                   cleanupInterval, now, facOrder, keyOrder, probe,
                   instance, timers, query>>

\* InteractionCreateEvent.execute receives an interaction of type ModalSubmit
\* whose data.custom_id is id (lines 27-28)
ReceiveModalSubmit(t, id, user) ==
    /\ tasks[t].pc = "idle"
    /\ IF t = 1 THEN TRUE ELSE tasks[t - 1].pc # "idle"
    /\ tasks' = [tasks EXCEPT ![t] =
                   [IdleTask EXCEPT !.pc = "modalSubmit", !.customId = id,
                                    !.userId = user, !.at = now]]
    /\ UNCHANGED <<regComponents, regFactories, dynComponents, componentCache,
                   cleanupInterval, now, facOrder, keyOrder, probe,
                   instance, timers, query>>

\* handleModalSubmit(data, api), lines 86-89: one debug line; no context is
\* built and dispatch is not called
HandleModalSubmit(t) ==
    /\ tasks[t].pc = "modalSubmit"
    /\ tasks' = [tasks EXCEPT ![t].pc = "done", ![t].result = "returned"]
    /\ UNCHANGED <<regComponents, regFactories, dynComponents, componentCache,
                   cleanupInterval, now, facOrder, keyOrder, probe,
                   instance, timers, query>>

-----------------------------------------------------------------------------
(* The process after module load: empty registries, the manager's           *)
(* constructor has armed the sweep timer.                                    *)

Init ==
    /\ regComponents = <<>>
    /\ regFactories = <<>>
    /\ dynComponents = <<>>
    /\ componentCache = <<>>
    /\ cleanupInterval = TRUE
    /\ now = 0
    /\ tasks = [t \in Tasks |-> IdleTask]
    /\ facOrder = <<>>
    /\ keyOrder = <<>>
    /\ probe = NoProbe
    /\ instance = TRUE
    /\ timers = 1
    /\ query = NoQuery

\* the process before the module of ComponentManager is evaluated
InitBoot ==
    /\ regComponents = <<>>
    /\ regFactories = <<>>
    /\ dynComponents = <<>>
    /\ componentCache = <<>>
    /\ cleanupInterval = FALSE
    /\ now = 0
    /\ tasks = [t \in Tasks |-> IdleTask]
    /\ facOrder = <<>>
    /\ keyOrder = <<>>
    /\ probe = NoProbe
    /\ instance = FALSE
    /\ timers = 0
    /\ query = NoQuery

\* the caller has seen the dispatch settle; the next interaction may come
Settle(t) ==
    /\ tasks[t].pc = "done"
    /\ tasks' = [tasks EXCEPT ![t] = IdleTask]
    /\ UNCHANGED <<regComponents, regFactories, dynComponents, componentCache,
                   cleanupInterval, now, facOrder, keyOrder, probe,
                   instance, timers, query>>

-----------------------------------------------------------------------------
(* Spec: registrations of every kind around dispatches that come one at a   *)
(* time (one task, reused).  The clock stands still.  A persistent component *)
(* is registered while its customId is free (overwrites: SpecRegistry).      *)

Next ==
    \/ \E c \in Persistent : ~OverwriteWarning(c) /\ Register(c)
    \/ \E f \in {f \in Factories : f.pattern = "util:confirm"} : RegisterFactory(f)
    \/ RegistryClear
    \/ \E c \in Pool : HandlerRegister(c)
    \/ \E id \in Ids : HandlerUnregister(id)
    \/ \E c \in Pool : RegisterComponent(c, NoOptions)
    \/ \E id \in Ids : UnregisterComponent(id)
    \/ \E id \in Ids, ctype \in {BUTTON, STRING_SELECT}, user \in Users :
         DispatchStart(1, id, ctype, user)
    \/ Validate(1)
    \/ ExecuteOther(1)
    \/ ExecuteConfirm(1)
    \/ Cleanup(1)
    \/ Notify(1)
    \/ Settle(1)

Spec == Init /\ [][Next]_vars

-----------------------------------------------------------------------------
(* SpecRace: concurrent dispatches (every task) of the single-use            *)
(* components registered at run time; nothing persistent is registered.      *)

NextRace ==
    \/ \E c \in {c \in Pool : c.once} : RegisterComponent(c, NoOptions)
    \/ \E id \in Ids : UnregisterComponent(id)
    \/ \E t \in Tasks, id \in Ids : DispatchStart(t, id, BUTTON, 1)
    \/ \E t \in Tasks : Validate(t)
    \/ \E t \in Tasks : ExecuteOther(t)
    \/ \E t \in Tasks : ExecuteConfirm(t)
    \/ \E t \in Tasks : Cleanup(t)
    \/ \E t \in Tasks : Notify(t)

SpecRace == Init /\ [][NextRace]_vars

-----------------------------------------------------------------------------
(* SpecRegistry: ComponentRegistry alone, with callers probing has and get.  *)

NextRegistry ==
    \/ \E c \in Persistent \cup Replacements : Register(c)
    \/ \E f \in Factories : RegisterFactory(f)
    \/ RegistryClear
    \/ \E id \in Ids : CallHas(id)
    \/ \E id \in Ids : CallGet(id)

SpecRegistry == Init /\ [][NextRegistry]_vars

-----------------------------------------------------------------------------
(* SpecEntries: the cache entries of ComponentManager under registration,    *)
(* use stamping and removal by its callers, with the clock running.          *)

NextEntries ==
    \/ \E c \in Pool, options \in ComponentOptions \ {WithTimeout(ShortTimeout)} :
         RegisterComponent(c, options)
    \/ \E c \in Pool : HandlerRegister(c)
    \/ \E id \in Ids : CallUnregisterComponent(id)
    \/ \E id \in Ids : CallUpdateComponentMetadata(id)
    \/ Tick

SpecEntries == Init /\ [][NextEntries]_vars

-----------------------------------------------------------------------------
(* SpecSweep: the manager from the load of its module on: construction,     *)
(* registrations with and without a timeout, the clock, the sweep timer and  *)
(* its stop.                                                                 *)

NextSweep ==
    \/ GetInstance
    \/ instance /\ \E c \in Pool, options \in {NoOptions, WithTimeout(ShortTimeout)} :
                      RegisterComponent(c, options)
    \/ \E c \in Pool : HandlerRegister(c)
    \/ instance /\ \E id \in Ids : CallUnregisterComponent(id)
    \/ \E r \in Persistent : ~OverwriteWarning(r) /\ Register(r)
    \/ Tick
    \/ SweepTick
    \/ instance /\ StopCleanupInterval

SpecSweep == InitBoot /\ [][NextSweep]_vars

-----------------------------------------------------------------------------
(* SpecInFlight: dispatches of dynamic components while their registrations  *)
(* are removed by callers and by the sweep.                                  *)

NextInFlight ==
    \/ \E c \in Pool : RegisterComponent(c, WithTimeout(ShortTimeout))
    \/ \E c \in Pool : HandlerRegister(c)
    \/ \E id \in Ids : HandlerUnregister(id)
    \/ \E id \in Ids : UnregisterComponent(id)
    \/ Tick
    \/ SweepTick
    \/ StopCleanupInterval
    \/ \E id \in Ids : DispatchStart(1, id, BUTTON, 1)
    \/ Validate(1)
    \/ ExecuteOther(1)
    \/ ExecuteConfirm(1)
    \/ Cleanup(1)
    \/ Notify(1)
    \/ Settle(1)

SpecInFlight == Init /\ [][NextInFlight]_vars

-----------------------------------------------------------------------------
(* SpecQueries: the read-only queries of ComponentManager over the entries   *)
(* its callers register, customIds without a colon included.                 *)

Namespaces == { <<"u","t","i","l">>, <<"m","e","n","u">>, <<"p","i","n","g">> }

NextQueries ==
    \/ \E c \in Pool \cup Bareword, options \in {NoOptions, WithTimeout(ShortTimeout)} :
         RegisterComponent(c, options)
    \/ \E id \in Ids \cup {IdPing} : UnregisterComponent(id)
    \/ Tick
    \/ \E id \in Ids \cup {IdPing} : CallIsComponentExpired(id)
    \/ \E ns \in Namespaces : CallGetComponentsByNamespace(ns)

SpecQueries == Init /\ [][NextQueries]_vars

-----------------------------------------------------------------------------
(* Properties *)

\* the task's dispatch call happens in this step
Starts(t) == tasks[t].pc = "idle" /\ tasks'[t].pc # "idle"

\* the task is suspended inside executeWithValidation or the catch of dispatch
InFlight(t) == tasks[t].pc \notin {"idle", "done"}

\* validate, execute or cleanup of the resolved component threw
Threw(t) ==
    \/ tasks[t].vres = "throw"
    \/ tasks[t].eres = "throw"
    \/ tasks[t].cres = "throw"

Notices(t) == SelectSeq(tasks[t].replies, LAMBDA r : r.kind = "notice")

\* the task record of a dispatch that found no handler and did nothing
SilentMiss(rec) ==
    /\ rec.pc = "done"
    /\ rec.result = "returned"
    /\ rec.component = NoComponent
    /\ rec.vres = "none" /\ rec.eres = "none" /\ rec.cres = "none"
    /\ rec.replies = <<>>

\* C1: a dispatch of a customId that is registered both in ComponentRegistry
\* and in the handler's dynamic map resolves the persistent component, and
\* the component a dispatch runs stays the one it resolved: the dynamic
\* component of that id is never the one executed.
C1_PersistentBeforeDynamic ==
    [][\A t \in Tasks :
         /\ ( /\ Starts(t)
              /\ MapHas(regComponents, tasks'[t].customId)
              /\ MapHas(dynComponents, tasks'[t].customId) )
            => /\ tasks'[t].component = MapGet(regComponents, tasks'[t].customId)
               /\ tasks'[t].component # MapGet(dynComponents, tasks'[t].customId)
               /\ tasks'[t].src = "registry"
         /\ (InFlight(t) /\ tasks'[t].pc # "idle")
            => tasks'[t].component = tasks[t].component
    ]_vars

\* C1 witness: a dispatch has executed the persistent component of an id
\* that also has a (different) dynamic component
C1_Witness ==
    \E t \in Tasks :
        /\ tasks[t].pc = "done"
        /\ tasks[t].eres = "ok"
        /\ MapHas(regComponents, tasks[t].customId)
        /\ MapHas(dynComponents, tasks[t].customId)
        /\ tasks[t].component = MapGet(regComponents, tasks[t].customId)
        /\ tasks[t].component.uid # MapGet(dynComponents, tasks[t].customId).uid

\* C2: when a dispatch of a dynamic component with once = true completes
\* after validate returned true and execute (and cleanup) succeeded, the
\* customId is no longer in the dynamic map nor in the manager's cache.
C2_OnceDispatchRemoves ==
    [][\A t \in Tasks :
         ( /\ tasks[t].pc # "done"
           /\ tasks'[t].pc = "done"
           /\ tasks'[t].src = "dynamic"
           /\ tasks'[t].component.once
           /\ tasks'[t].vres = "true"
           /\ tasks'[t].eres = "ok"
           /\ tasks'[t].cres = "ok" )
         => /\ ~MapHas(dynComponents', tasks'[t].customId)
            /\ ~MapHas(componentCache', tasks'[t].customId)
    ]_vars

\* C3: no step of a dispatch, from its resolution to the completion of its
\* cleanup, claims or removes a registration, and a dispatch of an id whose
\* only handler is a dynamic component resolves that component whatever other
\* dispatch is in flight: a second dispatch can execute the same single-use
\* component.
C3_NoClaimBeforeCleanup ==
    [][\A t \in Tasks :
         /\ (tasks'[t].pc # tasks[t].pc /\ tasks[t].pc # "done")
            => /\ dynComponents' = dynComponents
               /\ componentCache' = componentCache
         /\ ( /\ Starts(t)
              /\ MapHas(dynComponents, tasks'[t].customId)
              /\ ~RegistryHas(tasks'[t].customId) )
            => /\ tasks'[t].component = MapGet(dynComponents, tasks'[t].customId)
               /\ tasks'[t].pc = "validate"
    ]_vars

\* C3 witness: two dispatches have both run execute() of the same single-use
\* dynamic component, the first one's cleanup not yet completed
C3_Witness ==
    \E t1, t2 \in Tasks :
        /\ t1 # t2
        /\ tasks[t1].src = "dynamic" /\ tasks[t2].src = "dynamic"
        /\ tasks[t1].component = tasks[t2].component
        /\ tasks[t1].component.once
        /\ tasks[t1].pc = "cleanup" /\ tasks[t1].eres = "ok"
        /\ tasks[t2].eres = "ok"

\* C4: dispatch never throws to its caller: every settled dispatch returned
\* normally, whatever threw in the component and whether or not the error
\* notice could be sent.
C4_DispatchNeverThrows ==
    \A t \in Tasks :
        /\ tasks[t].result \in {"none", "returned"}
        /\ tasks[t].pc = "done" <=> tasks[t].result = "returned"

\* C4 witness: a dispatch whose component's cleanup threw and whose error
\* notice failed too has settled
C4_Witness ==
    \E t \in Tasks :
        /\ tasks[t].pc = "done"
        /\ tasks[t].cres = "throw"
        /\ Len(tasks[t].replies) > 0
        /\ ~tasks[t].replies[Len(tasks[t].replies)].ok

\* C5: a settled dispatch has attempted the ephemeral error notice exactly
\* once when validate, execute or cleanup of the resolved component threw (no
\* second attempt after a failed one) and not at all otherwise; no dispatch
\* ever holds more than one notice attempt.
C5_OneNoticeAttempt ==
    \A t \in Tasks :
        /\ Len(Notices(t)) <= 1
        /\ \A i \in 1..Len(Notices(t)) : Notices(t)[i].flags = EPHEMERAL
        /\ tasks[t].pc = "done"
           => Len(Notices(t)) = (IF Threw(t) THEN 1 ELSE 0)
        /\ tasks[t].pc # "done" => Len(Notices(t)) = 0

\* C5 witness: execute threw, the one notice attempt failed, dispatch settled
C5_Witness ==
    \E t \in Tasks :
        /\ tasks[t].pc = "done"
        /\ tasks[t].eres = "throw"
        /\ Len(Notices(t)) = 1
        /\ ~Notices(t)[1].ok

\* C6: when validate returned false, execute and cleanup were not invoked,
\* nothing was sent through the responder, and dispatch returned normally.
C6_RejectedValidationIsSilent ==
    \A t \in Tasks :
        tasks[t].vres = "false"
        => /\ tasks[t].eres = "none"
           /\ tasks[t].cres = "none"
           /\ tasks[t].replies = <<>>
           /\ tasks[t].pc = "done"
           /\ tasks[t].result = "returned"

\* C6 witness: BaseButton.validate rejected a context that is not a button's
C6_Witness ==
    \E t \in Tasks :
        /\ tasks[t].vres = "false"
        /\ tasks[t].component.kind \in {"button", "confirm"}
        /\ tasks[t].componentType # BUTTON
        /\ tasks[t].pc = "done"

\* no direct entry, no factory that can handle the id, no dynamic entry
Unmatched(id) ==
    /\ ~MapHas(regComponents, id)
    /\ \A i \in 1..Len(regFactories) : ~canHandle(regFactories[i].v, id)
    /\ ~MapHas(dynComponents, id)

\* C7: a dispatch of a customId matched by no direct entry, no factory and
\* no dynamic entry settles at once, returning normally, with no component,
\* no validate/execute/cleanup and no call through the responder; a settled
\* dispatch takes no further step.
C7_MissIsSilent ==
    [][\A t \in Tasks :
         /\ (Starts(t) /\ Unmatched(tasks'[t].customId)) => SilentMiss(tasks'[t])
         /\ tasks[t].pc = "done" => tasks'[t] \in {tasks[t], IdleTask}
    ]_vars

\* C7 witness: a dispatch settled as a miss while a factory and a dynamic
\* component for another id are registered
C7_Witness ==
    \E t \in Tasks :
        /\ SilentMiss(tasks[t])
        /\ tasks[t].src = "none"
        /\ Unmatched(tasks[t].customId)
        /\ regFactories # <<>>
        /\ dynComponents # <<>>

\* the first factory, in the order get() scans them, that can handle the id
\* throws in create
FirstHandlerThrows(id) ==
    \E i \in 1..Len(regFactories) :
        /\ canHandle(regFactories[i].v, id)
        /\ regFactories[i].v.throws
        /\ \A j \in 1..(i - 1) : ~canHandle(regFactories[j].v, id)

\* C8: when the factory matching a customId throws in create (and the id has
\* no direct entry), get returns null, and the dispatch resolves the dynamic
\* component of that id if there is one and is a silent miss otherwise.
C8_CreateFailureIsAMiss ==
    [][\A t \in Tasks :
         ( /\ Starts(t)
           /\ ~MapHas(regComponents, tasks'[t].customId)
           /\ FirstHandlerThrows(tasks'[t].customId) )
         => /\ RegistryGet(tasks'[t].customId).component = NoComponent
            /\ IF MapHas(dynComponents, tasks'[t].customId)
               THEN /\ tasks'[t].component = MapGet(dynComponents, tasks'[t].customId)
                    /\ tasks'[t].src = "dynamic"
                    /\ tasks'[t].pc = "validate"
               ELSE SilentMiss(tasks'[t])
    ]_vars

\* C8 witness: with the throwing factory registered, a dispatch has executed
\* the dynamic component of the id
C8_Witness ==
    \E t \in Tasks :
        /\ tasks[t].src = "dynamic"
        /\ tasks[t].eres = "ok"
        /\ ~MapHas(regComponents, tasks[t].customId)
        /\ FirstHandlerThrows(tasks[t].customId)

\* C8 second witness state: the same id without a dynamic entry is a miss
C8_WitnessMiss ==
    \E t \in Tasks :
        /\ SilentMiss(tasks[t])
        /\ tasks[t].src = "none"
        /\ FirstHandlerThrows(tasks[t].customId)

-----------------------------------------------------------------------------
(* ComponentRegistry.get and has, as its callers see them *)

FactoryById(fid) == CHOOSE f \in Factories : f.fid = fid

Least(S) == CHOOSE m \in S : \A x \in S : m <= x

\* what get(id) returned, given the factories in the priority order fs (a
\* sequence of factory objects): the direct entry if there is one; otherwise
\* the component built by the first factory of fs that can handle id (null if
\* its create throws), no factory behind it consulted; null if none can
GetFollows(id, fs) ==
    LET H == {i \in 1..Len(fs) : canHandle(fs[i], id)} IN
    IF MapHas(regComponents, id)
    THEN /\ probe.getRes = MapGet(regComponents, id)
         /\ probe.consulted = <<>>
    ELSE IF H = {}
    THEN /\ probe.getRes = NoComponent
         /\ probe.consulted = [i \in 1..Len(fs) |-> fs[i].fid]
    ELSE /\ probe.getRes = create(fs[Least(H)], id).component
         /\ probe.consulted = [i \in 1..Least(H) |-> fs[i].fid]

\* the registered factory objects, earliest registerFactory call first
ByOwnRegistration == [i \in 1..Len(facOrder) |-> FactoryById(facOrder[i])]

\* the registered factory objects, in the order their pattern keys were first
\* registered
ByKeyRegistration == [i \in 1..Len(keyOrder) |-> MapGet(regFactories, keyOrder[i])]

\* C9 as stated: get returns the direct entry even when a factory can handle
\* the id, and otherwise the result of the earliest-registered factory that
\* can handle it, later-registered factories not being consulted.
C9_EarliestRegisteredFactory ==
    probe.getId # "none" => GetFollows(probe.getId, ByOwnRegistration)

\* C9 amended: get returns the direct entry even when a factory can handle
\* the id, and otherwise the result of the factory stored under the
\* earliest-registered pattern key whose factory can handle it (a factory
\* registered under a key that is already present takes that key's place in
\* the order), the factories of later keys not being consulted.
C9_EarliestRegisteredKey ==
    probe.getId # "none" => GetFollows(probe.getId, ByKeyRegistration)

\* C9 witness: get answered from the second key's factory, the first key's
\* factory having been asked and unable to handle the id, with a third
\* registration made under the first key
C9_Witness ==
    /\ probe.getId # "none"
    /\ ~MapHas(regComponents, probe.getId)
    /\ Len(probe.consulted) = 2
    /\ probe.getRes # NoComponent
    /\ facOrder # [i \in 1..Len(regFactories) |-> regFactories[i].v.fid]

\* C9 second witness state: a direct entry returned while a factory can handle the id
C9_WitnessDirect ==
    /\ probe.getId # "none"
    /\ MapHas(regComponents, probe.getId)
    /\ probe.getRes = MapGet(regComponents, probe.getId)
    /\ \E i \in 1..Len(regFactories) : canHandle(regFactories[i].v, probe.getId)

\* has(id) returned true and get(id) was called next, the registry untouched
GetAfterTrueHas == probe.getId # "none" /\ probe.hasId = probe.getId /\ probe.hasRes

\* C10 as stated: has(id) true and no registry mutation before the next
\* get(id): that get returns a component.
C10_HasImpliesGet ==
    GetAfterTrueHas => probe.getRes # NoComponent

\* C10 amended: has(id) true and no registry mutation before the next
\* get(id): that get returns a component, unless the id has no direct entry
\* and the first factory that can handle it throws in create; then get
\* returns null.
C10_HasImpliesGetUnlessCreateThrows ==
    GetAfterTrueHas
    => IF ~MapHas(regComponents, probe.getId) /\ FirstHandlerThrows(probe.getId)
       THEN probe.getRes = NoComponent
       ELSE probe.getRes # NoComponent

\* C10 witness: has true for an id only a factory matches, get builds a component
C10_Witness ==
    /\ GetAfterTrueHas
    /\ ~MapHas(regComponents, probe.getId)
    /\ probe.getRes # NoComponent
    /\ probe.getRes.madeBy # 0

\* C10 second witness state: has true, the matching factory throws, get is null
C10_WitnessThrows ==
    /\ GetAfterTrueHas
    /\ probe.threw
    /\ probe.getRes = NoComponent

-----------------------------------------------------------------------------
(* ComponentRegistry.register on a customId that is already registered *)

\* C11: register never rejects: after register(c), whether or not the customId
\* was already registered, get(customId) returns c, no other component is
\* listed under that customId (an overwritten one is gone), getAll lists the
\* customId once and size grew only if the customId was new; the call logged
\* the overwrite warning exactly when the customId was already registered (so
\* none for a first registration and one for the second).
C11_OverwriteOnDuplicate ==
    [][\A c \in Persistent \cup Replacements :
         Register(c)
         => LET id == c.customId
                all == RegistryGetAll(regComponents')
            IN  /\ RegistryGet(id)'.component = c
                /\ \A i \in 1..Len(all) : all[i].customId = id => all[i] = c
                /\ Cardinality({i \in 1..Len(all) : all[i].customId = id}) = 1
                /\ RegistrySize(regComponents') =
                     RegistrySize(regComponents)
                     + (IF \E i \in 1..Len(regComponents) : regComponents[i].k = id
                        THEN 0 ELSE 1)
                /\ probe'.warned
                   <=> \E i \in 1..Len(regComponents) : regComponents[i].k = id
    ]_vars

\* C11 witness: the second component registered under menu:pick is the one
\* resolved, in the place the customId already had before util:confirm:ok was
\* registered, and the warning was logged
C11_Witness ==
    /\ probe.warned
    /\ RegistrySize(regComponents) = 2
    /\ regComponents[1].k = IdMenu
    /\ regComponents[1].v.uid = 6
    /\ RegistryGet(IdMenu).component.uid = 6

-----------------------------------------------------------------------------
(* Usage statistics *)

\* the dispatch of task t settles in this step after a successful execute of
\* a dynamic component that has a cache entry
SucceedsOnManaged(t) ==
    /\ tasks[t].pc # "done"
    /\ tasks'[t].pc = "done"
    /\ tasks'[t].src = "dynamic"
    /\ tasks'[t].eres = "ok"
    /\ tasks'[t].cres # "throw"
    /\ MapHas(componentCache, tasks'[t].customId)
    /\ MapGet(componentCache, tasks'[t].customId).component = tasks'[t].component

\* C12: a dispatch that executes a component registered through
\* registerComponent successfully adds one to the usageCount its cache entry
\* reports and sets lastUsed to the time of the dispatch.
C12_DispatchCountsUse ==
    [][\A t \in Tasks :
         SucceedsOnManaged(t)
         => /\ getComponentStats(componentCache', tasks'[t].customId).usageCount
               = getComponentStats(componentCache, tasks'[t].customId).usageCount + 1
            /\ MapGet(componentCache', tasks'[t].customId).lastUsed = now
    ]_vars

-----------------------------------------------------------------------------
(* Removal of dynamic registrations *)

\* this step is a ComponentHandler.register or a registerComponent call for
\* a component with this customId
RegistersDynamic(id) ==
    \E c \in Pool :
        /\ getCustomId(c) = id
        /\ \/ HandlerRegister(c)
           \/ \E options \in ComponentOptions : RegisterComponent(c, options)

\* C13: a customId that is absent from the dynamic map becomes present only
\* by a register / registerComponent call for it (no dispatch step, sweep
\* tick, stop or unregister call brings a registration back), and a dispatch
\* that starts while it is absent resolves no dynamic component for it.
C13_NoReturnWithoutRegister ==
    [][\A id \in Ids :
         /\ (~MapHas(dynComponents, id) /\ MapHas(dynComponents', id))
            => RegistersDynamic(id)
         /\ \A t \in Tasks :
              (Starts(t) /\ tasks'[t].customId = id /\ ~MapHas(dynComponents, id))
              => tasks'[t].src # "dynamic"
    ]_vars

\* C13 witness: a dispatch was a miss for a customId that ComponentHandler.
\* unregister removed from the dynamic map, later than the registration of
\* which the manager's cache still holds the entry
C13_Witness ==
    \E t \in Tasks :
        /\ SilentMiss(tasks[t])
        /\ ~MapHas(dynComponents, tasks[t].customId)
        /\ MapHas(componentCache, tasks[t].customId)
        /\ tasks[t].at > MapGet(componentCache, tasks[t].customId).registeredAt

\* C13 second witness state: a miss after a sweep tick that removed entries
\* (an entry expires only when the clock has passed its registration)
C13_WitnessSweep ==
    \E t \in Tasks :
        /\ SilentMiss(tasks[t])
        /\ tasks[t].at = now
        /\ tasks[t].at > 0
        /\ query.op = "cleanupExpiredComponents"
        /\ query.count > 0
        /\ dynComponents = <<>>

\* C19: a removal (sweep tick, unregisterComponent, unregister) changes no
\* dispatch: a task that is in flight changes only by its own steps, which
\* touch neither map; the task keeps the instance it resolved, and its
\* execute() ends by returning or throwing on that instance even when the
\* registration is gone; a dispatch that starts after the removal does not
\* resolve the removed component.
C19_RemovalLeavesInFlightDispatch ==
    [][\A t \in Tasks :
         /\ (InFlight(t) /\ tasks'[t] # tasks[t])
            => /\ dynComponents' = dynComponents
               /\ componentCache' = componentCache
               /\ tasks'[t].component = tasks[t].component
         /\ (tasks[t].pc = "execute" /\ tasks'[t].pc # "execute")
            => /\ tasks'[t].eres \in {"ok", "throw"}
               /\ tasks'[t].pc \in {"cleanup", "done", "notify"}
         /\ (Starts(t) /\ ~MapHas(dynComponents, tasks'[t].customId))
            => tasks'[t].src # "dynamic"
    ]_vars

\* C19 witness: a dispatch is suspended in execute() of a dynamic component
\* whose timeout has elapsed and whose entry the last sweep tick removed
C19_Witness ==
    \E t \in Tasks :
        /\ tasks[t].pc = "execute"
        /\ tasks[t].src = "dynamic"
        /\ query.op = "cleanupExpiredComponents"
        /\ query.count > 0
        /\ ~MapHas(dynComponents, tasks[t].customId)
        /\ ~MapHas(componentCache, tasks[t].customId)

\* C19 second witness state: that execute() has completed and the dispatch
\* settled, the registration still gone
C19_WitnessCompleted ==
    \E t \in Tasks :
        /\ tasks[t].pc = "done"
        /\ tasks[t].src = "dynamic"
        /\ tasks[t].eres = "ok"
        /\ query.op = "cleanupExpiredComponents"
        /\ query.count > 0
        /\ ~MapHas(dynComponents, tasks[t].customId)

-----------------------------------------------------------------------------
(* ComponentManager.unregisterComponent and registerComponent *)

\* the maps hold for every other customId what they held
OthersKept(id) ==
    \A other \in Ids \ {id} :
        /\ MapHas(dynComponents', other) <=> MapHas(dynComponents, other)
        /\ MapHas(componentCache', other) <=> MapHas(componentCache, other)

\* C14 as stated: after unregisterComponent(id) the id is absent from the
\* dynamic map and from the cache, however its dynamic component was
\* registered.
C14_UnregisterRemovesBoth ==
    [][\A id \in Ids :
         CallUnregisterComponent(id)
         => /\ ~MapHas(dynComponents', id)
            /\ ~MapHas(componentCache', id)
    ]_vars

\* C14 amended: after unregisterComponent(id) the id is absent from the
\* cache; it is absent from the dynamic map too when it had a cache entry at
\* the call (whatever put the component now in the dynamic map); when it had
\* no cache entry the call changes nothing, so a component that was only
\* registered through ComponentHandler.register stays in the dynamic map.
\* No other customId is touched.
C14_UnregisterRemovesTracked ==
    [][\A id \in Ids :
         CallUnregisterComponent(id)
         => /\ ~MapHas(componentCache', id)
            /\ IF \E i \in 1..Len(componentCache) : componentCache[i].k = id
               THEN ~MapHas(dynComponents', id)
               ELSE /\ dynComponents' = dynComponents
                    /\ componentCache' = componentCache
            /\ OthersKept(id)
    ]_vars

\* C14 witness: unregisterComponent found the entry and the id is gone from
\* both maps, another id's registration being kept
C14_Witness ==
    /\ query.op = "unregisterComponent"
    /\ query.flag
    /\ ~MapHas(dynComponents, query.id)
    /\ ~MapHas(componentCache, query.id)
    /\ dynComponents # <<>>
    /\ componentCache # <<>>

\* C14 second witness state: unregisterComponent found no entry and the
\* directly registered component is still in the dynamic map
C14_WitnessDirect ==
    /\ query.op = "unregisterComponent"
    /\ ~query.flag
    /\ MapHas(dynComponents, query.id)
    /\ ~MapHas(componentCache, query.id)

\* C15: registerComponent(c, options) returns c's customId and leaves, under
\* that id, c in the dynamic map and a cache entry holding c with usageCount
\* 0, registeredAt = lastUsed = now, the timeout of the options if they give
\* one (0 included) and 15 minutes otherwise, the metadata of the options if
\* they give one and an empty one otherwise; whatever entry the id had before
\* is replaced (its count and age do not survive: the fresh entry has age 0).
C15_RegisterInstallsFreshEntry ==
    [][\A c \in Pool, options \in ComponentOptions :
         RegisterComponent(c, options)
         => LET id == RegisterComponentReturns(c)
                e == MapGet(componentCache', id)
                stats == getComponentStats(componentCache', id)
            IN  /\ id = c.customId
                /\ MapHas(dynComponents', id)
                /\ MapGet(dynComponents', id) = c
                /\ MapHas(componentCache', id)
                /\ e.component = c
                /\ e.usageCount = 0
                /\ e.registeredAt = now
                /\ e.lastUsed = now
                /\ e.timeout = (IF options.hasTimeout THEN options.timeout
                                ELSE 15 * 60 * 1000)
                /\ e.metadata = (IF options.hasMetadata THEN options.metadata ELSE {})
                /\ stats.usageCount = 0
                /\ stats.age = 0
                /\ Cardinality({i \in 1..Len(componentCache') :
                                  componentCache'[i].k = id}) = 1
    ]_vars

\* C15 witness: the entry of the customId registered first was installed
\* again later than the second customId's (it kept its place in the map),
\* with a timeout of 0 given in the options, unused and of age 0
C15_Witness ==
    /\ Len(componentCache) = 2
    /\ componentCache[1].v.registeredAt > componentCache[2].v.registeredAt
    /\ componentCache[1].v.registeredAt = now
    /\ componentCache[1].v.timeout = 0
    /\ componentCache[1].v.usageCount = 0
    /\ componentCache[2].v.usageCount > 0

\* C15 second witness state: an entry with the default timeout and one with
\* the metadata and timeout of its options
C15_WitnessOptions ==
    /\ Len(componentCache) = 2
    /\ componentCache[1].v.timeout = DEFAULT_TIMEOUT
    /\ componentCache[1].v.metadata = {}
    /\ componentCache[2].v.timeout = ShortTimeout
    /\ componentCache[2].v.metadata = {"source"}

-----------------------------------------------------------------------------
(* Expiry, the sweep and its stop *)

AllIds == Ids \cup {IdPing}

\* the customId has a cache entry whose age exceeds its timeout
AgedOut(id) ==
    \E i \in 1..Len(componentCache) :
        /\ componentCache[i].k = id
        /\ now - componentCache[i].v.registeredAt > componentCache[i].v.timeout

\* C16: isComponentExpired(id) returns true exactly when id has no cache
\* entry or now - registeredAt > timeout (so false at age = timeout), and the
\* call leaves the maps, the clock and the timer as they are.
C16_ExpiredIffNoEntryOrOlder ==
    [][\A id \in AllIds :
         CallIsComponentExpired(id)
         => /\ query'.flag
               <=> \/ ~\E i \in 1..Len(componentCache) : componentCache[i].k = id
                   \/ AgedOut(id)
            /\ UNCHANGED <<regComponents, regFactories, dynComponents, componentCache,
                           cleanupInterval, now, tasks, instance, timers>>
    ]_vars

\* C16 witness: isComponentExpired answered false for an entry whose age
\* equals its timeout
C16_Witness ==
    /\ query.op = "isComponentExpired"
    /\ ~query.flag
    /\ MapHas(componentCache, query.id)
    /\ MapGet(componentCache, query.id).timeout = ShortTimeout
    /\ now - MapGet(componentCache, query.id).registeredAt = ShortTimeout

\* C16 second witness state: true for an entry older than its timeout
C16_WitnessOlder ==
    /\ query.op = "isComponentExpired"
    /\ query.flag
    /\ MapHas(componentCache, query.id)
    /\ now - MapGet(componentCache, query.id).registeredAt = ShortTimeout + 1

\* C16 third witness state: true for an id without entry while others have one
C16_WitnessAbsent ==
    /\ query.op = "isComponentExpired"
    /\ query.flag
    /\ ~MapHas(componentCache, query.id)
    /\ componentCache # <<>>

\* C17: a sweep tick removes from the cache and from the dynamic map every
\* customId whose entry's age exceeds its timeout at the tick (all of them in
\* the one pass, which logs their number), keeps every other cache entry and
\* every other dynamic registration as it is, and leaves the persistent
\* registry alone; after the tick getAllComponentStats lists no expired
\* component.
C17_SweepRemovesExactlyExpired ==
    [][SweepTick
       => /\ \A id \in Ids :
               IF AgedOut(id)
               THEN /\ ~MapHas(componentCache', id)
                    /\ ~MapHas(dynComponents', id)
               ELSE /\ MapHas(componentCache', id) <=> MapHas(componentCache, id)
                    /\ MapHas(componentCache, id)
                       => MapGet(componentCache', id) = MapGet(componentCache, id)
                    /\ MapHas(dynComponents', id) <=> MapHas(dynComponents, id)
                    /\ MapHas(dynComponents, id)
                       => MapGet(dynComponents', id) = MapGet(dynComponents, id)
          /\ regComponents' = regComponents
          /\ regFactories' = regFactories
          /\ query'.count = Cardinality({id \in Ids : AgedOut(id)})
          /\ LET stats == getAllComponentStats(componentCache') IN
             \A i \in 1..Len(stats) : ~stats[i].expired
    ]_vars

\* C17 witness: the last sweep tick removed two entries in its pass, a
\* persistent component being registered
C17_Witness ==
    /\ query.op = "cleanupExpiredComponents"
    /\ query.count = 2
    /\ componentCache = <<>>
    /\ dynComponents = <<>>
    /\ regComponents # <<>>

\* C17 second witness state: the tick removed the first entry of the cache
\* and kept the second, which has not expired
C17_WitnessKept ==
    /\ query.op = "cleanupExpiredComponents"
    /\ query.count = 1
    /\ Len(componentCache) = 1
    /\ Len(dynComponents) = 1
    /\ now - componentCache[1].v.registeredAt > 0

\* the manager exists and its sweep has been stopped
Stopped == instance /\ ~cleanupInterval

\* C18: while the manager's handle is set exactly one sweep timer is armed
\* (never more than one, however often getInstance is called); once
\* stopCleanupInterval has run no timer is armed and no sweep tick happens
\* any more, the sweep is never started again, a cache entry disappears only
\* by an unregisterComponent call, and a further stopCleanupInterval changes
\* nothing.
C18_SweepStoppable ==
    [][/\ timers' <= 1
       /\ (instance' /\ cleanupInterval') => timers' = 1
       /\ Stopped
          => /\ Stopped'
             /\ timers = 0
             /\ timers' = 0
             /\ ~SweepTick
             /\ \A id \in Ids :
                  (MapHas(componentCache, id) /\ ~MapHas(componentCache', id))
                  => CallUnregisterComponent(id)
       /\ (Stopped /\ StopCleanupInterval)
          => UNCHANGED <<regComponents, regFactories, dynComponents, componentCache,
                         cleanupInterval, now, tasks, instance, timers>>
    ]_vars

\* C18 witness: a second stopCleanupInterval found the handle unset; no
\* timer is armed and an expired entry is still in the cache
C18_Witness ==
    /\ query.op = "stopCleanupInterval"
    /\ ~query.flag
    /\ timers = 0
    /\ \E id \in Ids : AgedOut(id)

\* C18 second witness state: the timer is armed, one entry has expired and
\* getInstance has been called again since (one timer only)
C18_WitnessArmed ==
    /\ instance
    /\ cleanupInterval
    /\ timers = 1
    /\ \E id \in Ids : AgedOut(id)

-----------------------------------------------------------------------------
(* getComponentsByNamespace *)

\* the characters of s before its first colon (all of s when it has none)
FirstSegment(s) ==
    LET colons == {i \in 1..Len(s) : s[i] = ":"} IN
    IF colons = {} THEN s ELSE SubSeq(s, 1, Least(colons) - 1)

\* C20: getComponentsByNamespace(ns) returns the components of exactly the
\* cache entries whose customId's first colon-segment is ns, each once,
\* whatever components are registered.
C20_NamespaceFilterExact ==
    query.op = "getComponentsByNamespace"
    => /\ ~query.threw
       /\ {query.components[i] : i \in 1..Len(query.components)}
          = {componentCache[i].v.component :
               i \in {j \in 1..Len(componentCache) :
                        FirstSegment(Text(componentCache[j].k)) = query.ns}}
       /\ \A i, j \in 1..Len(query.components) :
            query.components[i] = query.components[j] => i = j


-----------------------------------------------------------------------------
(* SpecParse: parseCustomId on every string of up to MaxLen characters.      *)

Alphabet == {"a", "b", ":"}

Texts == UNION {[1..n -> Alphabet] : n \in 0..MaxLen}

NextParse == \E s \in Texts : CallParseCustomId(s)

SpecParse == Init /\ [][NextParse]_vars

\* the positions of the colons of s
Colons(s) == {i \in 1..Len(s) : s[i] = ":"}

\* the number of segments the colons cut s into
SegmentCount(s) == Cardinality(Colons(s)) + 1

\* the position of the k-th colon of s (0 before the first segment, Len(s) + 1
\* after the last)
ColonAt(s, k) ==
    IF k = 0 THEN 0
    ELSE IF k > Cardinality(Colons(s)) THEN Len(s) + 1
    ELSE CHOOSE i \in Colons(s) : Cardinality({j \in Colons(s) : j < i}) = k - 1

\* the k-th segment of s
Segment(s, k) == SubSeq(s, ColonAt(s, k - 1) + 1, ColonAt(s, k) - 1)

\* C21: parseCustomId(s) fails when the colons cut s into fewer than two
\* segments; otherwise it returns the first segment as namespace, the second
\* as componentId and the third as metadataHash, which is absent when s has
\* only two segments; the call changes nothing of the program's state.
C21_ParseCustomId ==
    [][\A s \in Texts :
         CallParseCustomId(s)
         => /\ query'.parsed.threw <=> SegmentCount(s) < 2
            /\ SegmentCount(s) >= 2
               => /\ query'.parsed.namespace = Segment(s, 1)
                  /\ query'.parsed.componentId = Segment(s, 2)
                  /\ query'.parsed.hasHash <=> SegmentCount(s) >= 3
                  /\ SegmentCount(s) >= 3
                     => query'.parsed.metadataHash = Segment(s, 3)
            /\ UNCHANGED <<regComponents, regFactories, dynComponents,
                           componentCache, cleanupInterval, now, tasks,
                           instance, timers>>]_vars

\* parseCustomId has returned namespace, componentId and metadataHash of a
\* customId of three non-empty segments
C21_Witness ==
    /\ query.op = "parseCustomId"
    /\ query.text = <<"a", ":", "b", ":", "a">>
    /\ ~query.parsed.threw
    /\ query.parsed.hasHash
    /\ query.parsed.metadataHash = <<"a">>

\* parseCustomId has thrown on a string without a colon
C21_WitnessThrows ==
    /\ query.op = "parseCustomId"
    /\ query.text = <<"a", "b">>
    /\ query.parsed.threw

\* parseCustomId has returned no metadataHash for a customId of two segments
C21_WitnessNoHash ==
    /\ query.op = "parseCustomId"
    /\ query.text = <<"a", ":", "b">>
    /\ ~query.parsed.threw
    /\ ~query.parsed.hasHash


-----------------------------------------------------------------------------
(* SpecFactory: ConfirmButtonFactory.create on the customIds                 *)
(* util:confirm:<action>[:success|danger], the actions built from a stem and *)
(* an ending.                                                                *)

Stems == { <<"x">>,
           <<"d", "e", "l", "e", "t", "e", "-", "m", "e", "s", "s", "a", "g", "e">>,
           <<"t", "e", "s", "t">>,
           <<"a", ":", "b">>,
           <<"d", "a", "n", "g", "e", "r">> }

Endings == { <<>>,
             <<"-", "d", "a", "n", "g", "e", "r">>,
             <<"-", "c", "a", "n", "c", "e", "l">>,
             <<"-", "s", "u", "c", "c", "e", "s", "s">>,
             <<"-", "c", "o", "n", "f", "i", "r", "m">>,
             <<":", "d", "a", "n", "g", "e", "r">>,
             <<":", "s", "u", "c", "c", "e", "s", "s">>,
             <<"-", "d", "a", "n", "g", "e", "r", "o", "u", "s">> }

Actions == {stem \o ending : stem \in Stems, ending \in Endings}

\* the explicit style suffix of a customId ("none": no suffix)
SuffixText(style) ==
    IF style = "success" THEN SuffixSuccess
    ELSE IF style = "danger" THEN SuffixDanger
    ELSE <<>>

ConfirmId(action, style) == ConfirmPrefix \o action \o SuffixText(style)

ConfirmTexts == {ConfirmId(a, st) : a \in Actions, st \in {"none", "success", "danger"}}

NextFactory == \E s \in ConfirmTexts : CallCreate(s)

SpecFactory == Init /\ [][NextFactory]_vars

\* the action is read as written: it does not itself end in a style suffix
\* (util:confirm:x:danger is action x with the suffix danger)
PlainAction(a) ==
    \A st \in {"success", "danger"} :
       ~(EndsWith(a, SuffixText(st)) /\ Len(a) > Len(SuffixText(st)))

\* the style the rule of the documentation infers from an action
RuleStyle(a) ==
    IF \E e \in { <<"-", "d", "a", "n", "g", "e", "r">>, <<"-", "c", "a", "n", "c", "e", "l">> } : EndsWith(a, e)
    THEN "danger"
    ELSE "success"

C22_WitnessInferred ==
    /\ query.op = "create"
    /\ query.text = ConfirmId(<<"t", "e", "s", "t", "-", "d", "a", "n", "g", "e", "r">>, "none")
    /\ query.created.style = "danger"

\* create has built util:confirm:delete-message with the default style
C22_WitnessDefault ==
    /\ query.op = "create"
    /\ query.text = ConfirmId(<<"d", "e", "l", "e", "t", "e", "-", "m", "e", "s", "s", "a", "g", "e">>, "none")
    /\ query.created.action = <<"d", "e", "l", "e", "t", "e", "-", "m", "e", "s", "s", "a", "g", "e">>
    /\ query.created.style = "success"


-----------------------------------------------------------------------------
(* SpecScenario: the confirm factory is the only registration; buttons of    *)
(* its format are clicked.                                                   *)

ConfirmButtonFactory == CHOOSE f \in Factories : f.class = "confirm"

NextScenario ==
    \/ RegisterFactory(ConfirmButtonFactory)
    \/ \E t \in Tasks, id \in {IdTestDanger, IdConfirm},
          ctype \in {BUTTON, STRING_SELECT}, user \in Users :
         DispatchStart(t, id, ctype, user)
    \/ \E t \in Tasks : Validate(t)
    \/ \E t \in Tasks : ExecuteConfirm(t)
    \/ \E t \in Tasks : Cleanup(t)
    \/ \E t \in Tasks : Notify(t)

SpecScenario == Init /\ [][NextScenario]_vars

\* a settled dispatch of util:confirm:test-danger, clicked as a button, that
\* the factory resolved
FactoryClick(t) ==
    /\ tasks[t].pc = "done"
    /\ tasks[t].customId = IdTestDanger
    /\ tasks[t].componentType = BUTTON
    /\ tasks[t].src = "registry"

\* the component is the factory's button for test-danger, executed once
BuiltAndRunOnce(t) ==
    /\ tasks[t].component.kind = "confirm"
    /\ tasks[t].component.madeBy = ConfirmButtonFactory.fid
    /\ tasks[t].component.action = <<"t", "e", "s", "t", "-", "d", "a", "n", "g", "e", "r">>
    /\ tasks[t].component.style = "danger"
    /\ Len(SelectSeq(tasks[t].calls, LAMBDA c : c = "execute")) = 1

\* C23 (as stated): with only the confirm factory registered, a button click
\* on util:confirm:test-danger builds the button (action test-danger, style
\* danger), runs its execute once and produces exactly one reply, which is
\* ephemeral.
C23_OneEphemeralReply ==
    \A t \in Tasks :
       FactoryClick(t)
       => /\ BuiltAndRunOnce(t)
          /\ Len(tasks[t].replies) = 1
          /\ tasks[t].replies[1].flags = EPHEMERAL

\* C23 (amended): with only the confirm factory registered, a button click
\* on util:confirm:test-danger builds the button (action test-danger, style
\* danger) and runs its execute once; execute sends one reply, the
\* confirmation embed, which is not ephemeral; it is the dispatch's only
\* reply when it is delivered, and is followed by the ephemeral error notice
\* of dispatch when it is not.
C23_OnePublicConfirmation ==
    \A t \in Tasks :
       FactoryClick(t)
       => /\ BuiltAndRunOnce(t)
          /\ Len(tasks[t].replies) >= 1
          /\ tasks[t].replies[1].kind = "confirmation"
          /\ tasks[t].replies[1].flags = 0
          /\ tasks[t].replies[1].ok => Len(tasks[t].replies) = 1
          /\ ~tasks[t].replies[1].ok
             => /\ Len(tasks[t].replies) = 2
                /\ tasks[t].replies[2].kind = "notice"
                /\ tasks[t].replies[2].flags = EPHEMERAL

\* the click on util:confirm:test-danger has been answered by the factory's
\* button with its delivered confirmation
C23_Witness ==
    \E t \in Tasks :
       /\ FactoryClick(t)
       /\ regComponents = <<>> /\ dynComponents = <<>>
       /\ tasks[t].calls = <<"validate", "execute", "cleanup">>
       /\ Len(tasks[t].replies) = 1
       /\ tasks[t].replies[1].ok


-----------------------------------------------------------------------------
(* SpecModal: modals and other persistent components are registered;         *)
(* message-component and modal-submit interactions arrive one at a time.     *)
(* The event loop runs every handler that has been entered to its end.       *)

NextModal ==
    \/ \E c \in Modals \cup Persistent : ~OverwriteWarning(c) /\ Register(c)
    \/ \E id \in {IdFeedback, IdMenu}, user \in Users : ReceiveModalSubmit(1, id, user)
    \/ HandleModalSubmit(1)
    \/ \E id \in {IdFeedback, IdMenu, IdConfirm}, ctype \in {BUTTON, STRING_SELECT},
          user \in Users :
         DispatchStart(1, id, ctype, user)
    \/ Validate(1)
    \/ ExecuteOther(1)
    \/ Cleanup(1)
    \/ Notify(1)
    \/ Settle(1)

SpecModal ==
    /\ Init
    /\ [][NextModal]_vars
    /\ WF_vars(HandleModalSubmit(1))
    /\ WF_vars(Validate(1))
    /\ WF_vars(ExecuteOther(1))
    /\ WF_vars(Cleanup(1))
    /\ WF_vars(Notify(1))

\* a ModalSubmit interaction for the customId of a registered modal has arrived
ModalSubmitPending(t) ==
    /\ tasks[t].pc = "modalSubmit"
    /\ MapHas(regComponents, tasks[t].customId)
    /\ MapGet(regComponents, tasks[t].customId).kind = "modal"

\* the modal has been resolved for the interaction and its execute invoked
ModalExecuted(t) ==
    /\ tasks[t].pc # "modalSubmit"
    /\ tasks[t].component # NoComponent
    /\ tasks[t].component.kind = "modal"
    /\ \E i \in 1..Len(tasks[t].calls) : tasks[t].calls[i] = "execute"

\* C24: a ModalSubmit interaction whose custom_id is the customId of a modal
\* registered in ComponentRegistry is handled by that modal: the modal is
\* resolved, its validate accepts the context and its execute is invoked.
C24_ModalSubmitHandled == ModalSubmitPending(1) ~> ModalExecuted(1)


-----------------------------------------------------------------------------
(* SpecPair: confirmation dialogs are registered as pairs and clicked.       *)

NextPair ==
    \/ \E action \in PairActions, user \in Users : RegisterPair(action, user)
    \/ \E id \in {IdConfirm, IdTestDanger} : UnregisterComponent(id)
    \/ \E id \in {IdConfirm, IdTestDanger}, user \in Users :
         DispatchStart(1, id, BUTTON, user)
    \/ Validate(1)
    \/ ExecuteConfirm(1)
    \/ Cleanup(1)
    \/ Notify(1)
    \/ Settle(1)

SpecPair == Init /\ [][NextPair]_vars

\* C25: after both buttons of createConfirmPair have been registered with
\* registerComponent, the dynamic map and the cache each hold the confirm
\* button and the cancel button, under two distinct customIds.
C25_PairBothRegistered ==
    query.op = "createConfirmPair"
    => \E k1, k2 \in MapKeys(dynComponents) \cap MapKeys(componentCache) :
          /\ k1 # k2
          /\ MapGet(dynComponents, k1) = query.components[1]
          /\ MapGet(dynComponents, k2) = query.components[2]
          /\ MapGet(componentCache, k1).component = query.components[1]
          /\ MapGet(componentCache, k2).component = query.components[2]


-----------------------------------------------------------------------------
(* executeWithValidation *)

\* executeWithValidation of the task's component has settled
Settled(t) ==
    /\ tasks[t].component # NoComponent
    /\ tasks[t].pc \in {"notify", "done"}

\* C26: executeWithValidation calls validate, then execute, then cleanup, in
\* that order and each at most once; cleanup is called exactly when once is
\* true and execute returned without throwing; an exception of execute
\* reaches the caller (the catch of dispatch) and cleanup is not called.
C26_ValidateExecuteCleanup ==
    \A t \in Tasks :
       /\ tasks[t].calls
            = SubSeq(<<"validate", "execute", "cleanup">>, 1, Len(tasks[t].calls))
       /\ Settled(t)
          => ((\E i \in 1..Len(tasks[t].calls) : tasks[t].calls[i] = "cleanup")
              <=> (tasks[t].component.once /\ tasks[t].eres = "ok"))
       /\ tasks[t].eres = "throw"
          => /\ tasks[t].calls = <<"validate", "execute">>
             /\ tasks[t].pc \in {"notify", "done"}
             /\ tasks[t].pc = "done" => Len(Notices(t)) = 1

\* a single-use component has been validated, executed and cleaned up
C26_Witness ==
    \E t \in Tasks :
       /\ tasks[t].pc = "done"
       /\ tasks[t].component # NoComponent
       /\ tasks[t].component.once
       /\ tasks[t].calls = <<"validate", "execute", "cleanup">>

\* execute of a single-use component threw: dispatch has caught the exception
\* and cleanup was not called
C26_WitnessThrow ==
    \E t \in Tasks :
       /\ tasks[t].pc = "done"
       /\ tasks[t].component # NoComponent
       /\ tasks[t].component.once
       /\ tasks[t].eres = "throw"
       /\ tasks[t].calls = <<"validate", "execute">>
       /\ Len(Notices(t)) = 1

\* a component that is not single-use has run without cleanup
C26_WitnessReusable ==
    \E t \in Tasks :
       /\ tasks[t].pc = "done"
       /\ tasks[t].component # NoComponent
       /\ ~tasks[t].component.once
       /\ tasks[t].eres = "ok"
       /\ tasks[t].calls = <<"validate", "execute">>


-----------------------------------------------------------------------------
(* SpecOwner: the process as it is started (ConfirmButtonFactory registered  *)
(* by the startup code), confirm buttons registered for one user by the      *)
(* commands and never removed, clicks by every user, the clock running.      *)

\* the buttons the commands register: new ConfirmButton(action, style,
\* {originalUserId: userId})
OwnedButtons ==
    { ConfirmButton(1, IdConfirm, "success", 1, 0),
      ConfirmButton(13, IdTestDanger, "danger", 2, 0) }

NextOwner ==
    \/ RegisterFactory(ConfirmButtonFactory)
    \/ \E c \in OwnedButtons : RegisterComponent(c, NoOptions)
    \/ Tick
    \/ \E id \in {IdConfirm, IdTestDanger}, user \in Users :
         DispatchStart(1, id, BUTTON, user)
    \/ Validate(1)
    \/ ExecuteConfirm(1)
    \/ Cleanup(1)
    \/ Notify(1)
    \/ Settle(1)

SpecOwner == Init /\ [][NextOwner]_vars

\* the dispatch of task t is a click by another user than the originalUserId
\* of the ConfirmButton that registerComponent had stored under the clicked
\* customId before the click
ForeignClick(t) ==
    /\ tasks[t].pc # "idle"
    /\ MapHas(componentCache, tasks[t].customId)
    /\ LET entry == MapGet(componentCache, tasks[t].customId) IN
       /\ entry.component.kind = "confirm"
       /\ entry.component.owner # 0
       /\ entry.component.owner # tasks[t].userId
       /\ entry.registeredAt < tasks[t].at

\* C27: a click by another user than the originalUserId of a ConfirmButton
\* registered through registerComponent never gets the confirmation reply,
\* only the refusal, also while ConfirmButtonFactory is registered.
C27_OnlyOwnerConfirms ==
    \A t \in Tasks :
       ForeignClick(t)
       => \A i \in 1..Len(tasks[t].replies) :
             tasks[t].replies[i].kind # "confirmation"


-----------------------------------------------------------------------------
(* SpecManaged: the dynamic components are handled through ComponentManager  *)
(* alone: registerComponent, unregisterComponent, the sweep, and dispatches. *)

NextManaged ==
    \/ \E c \in Pool, options \in {NoOptions, WithTimeout(ShortTimeout)} :
         RegisterComponent(c, options)
    \/ \E id \in Ids : CallUnregisterComponent(id)
    \/ Tick
    \/ SweepTick
    \/ \E id \in Ids : DispatchStart(1, id, BUTTON, 1)
    \/ Validate(1)
    \/ ExecuteOther(1)
    \/ ExecuteConfirm(1)
    \/ Cleanup(1)
    \/ Notify(1)
    \/ Settle(1)

SpecManaged == Init /\ [][NextManaged]_vars

\* C28: after any sequence of registerComponent, unregisterComponent, sweep
\* ticks and dispatches, every customId with a cache entry is a key of the
\* handler's dynamic map, mapped to the component of the cache entry.
C28_CacheWithinDynamic ==
    \A i \in 1..Len(componentCache) :
       /\ MapHas(dynComponents, componentCache[i].k)
       /\ MapGet(dynComponents, componentCache[i].k) = componentCache[i].v.component

\* a sweep has removed an expired entry and left another, which a dispatch
\* has run to its end
C28_Witness ==
    /\ query.op = "cleanupExpiredComponents"
    /\ query.count > 0
    /\ componentCache # <<>>
    /\ tasks[1].pc = "done"
    /\ tasks[1].src = "dynamic"
    /\ MapHas(componentCache, tasks[1].customId)

\* an entry has been replaced by a registration of another instance under
\* the same customId
C28_WitnessReplaced ==
    /\ MapHas(componentCache, IdMenu)
    /\ MapGet(componentCache, IdMenu).component.uid = 3
    /\ MapHas(componentCache, IdConfirm)
    /\ MapIndex(componentCache, IdMenu) < MapIndex(componentCache, IdConfirm)
    /\ MapGet(componentCache, IdMenu).registeredAt > MapGet(componentCache, IdConfirm).registeredAt


-----------------------------------------------------------------------------
(* Expiry and dispatch *)

\* the customId has a cache entry older than its timeout that no sweep has
\* removed yet: the component is still in the dynamic map
ExpiredUnswept(id) ==
    /\ MapHas(componentCache, id)
    /\ isComponentExpired(componentCache, id)
    /\ MapHas(dynComponents, id)

\* C29: expiry is enforced by the sweep alone: a dispatch for a dynamic
\* component whose age already exceeds its timeout, and which no sweep has
\* removed yet, resolves that component and goes on to run it
\* (executeWithValidation), and leaves the registration in place.
C29_ExpiredStillDispatched ==
    [][\A t \in Tasks, id \in Ids :
         ( /\ Starts(t)
           /\ tasks'[t].customId = id
           /\ tasks'[t].pc # "modalSubmit"
           /\ ExpiredUnswept(id)
           /\ RegistryGet(id).component = NoComponent )
         => /\ tasks'[t].component = MapGet(dynComponents, id)
            /\ tasks'[t].src = "dynamic"
            /\ tasks'[t].pc = "validate"
            /\ dynComponents' = dynComponents
            /\ componentCache' = componentCache]_vars

\* a component dispatched after its timeout had passed has been executed,
\* its entry still waiting for the sweep
C29_Witness ==
    /\ tasks[1].pc = "done"
    /\ tasks[1].src = "dynamic"
    /\ tasks[1].eres = "ok"
    /\ MapHas(componentCache, tasks[1].customId)
    /\ LET entry == MapGet(componentCache, tasks[1].customId) IN
       /\ entry.component = tasks[1].component
       /\ tasks[1].at - entry.registeredAt > entry.timeout


-----------------------------------------------------------------------------
(* registerFactory under a pattern key that is already registered *)

\* the pattern keys of the factories map, in the order get() walks them
PatternKeys(factories) == [i \in 1..Len(factories) |-> factories[i].k]

\* C30: registerFactory under a pattern key that is already registered
\* replaces the factory stored under the key (one factory per key,
\* factoryCount unchanged) and leaves the key where its first registration
\* put it in the order get() walks: the replacement is tried before the
\* factories of the keys registered after that first registration, although
\* it is the factory registered last.
C30_ReRegisterKeepsPlace ==
    [][\A f \in Factories :
         (RegisterFactory(f) /\ MapHas(regFactories, getPattern(f)))
         => LET key == getPattern(f)
                place == MapIndex(regFactories, key)
            IN  /\ RegistryFactoryCount(regFactories') = RegistryFactoryCount(regFactories)
                /\ PatternKeys(regFactories') = PatternKeys(regFactories)
                /\ PatternKeys(regFactories') = keyOrder'
                /\ \A i \in 1..Len(regFactories') :
                      regFactories'[i].v = IF i = place THEN f ELSE regFactories[i].v
                /\ facOrder'[Len(facOrder')] = f.fid
                /\ \A id \in Ids :
                      ( /\ canHandle(f, id)
                        /\ \A i \in 1..(place - 1) : ~canHandle(regFactories[i].v, id) )
                      => ScanFactories(regFactories', 1, id).consulted
                           = [i \in 1..place |-> regFactories'[i].v.fid]
    ]_vars

\* the factory registered last sits under the first key, before the factory
\* of the key registered second, and get() asks it first
C30_Witness ==
    /\ RegistryFactoryCount(regFactories) = 2
    /\ regFactories[1].v.fid = 3
    /\ regFactories[2].v.fid = 2
    /\ facOrder = <<2, 3>>
    /\ keyOrder = <<"util:confirm", "any">>
    /\ ScanFactories(regFactories, 1, IdMenu).consulted = <<3>>

====
